---- MODULE Spec2Model ----
(***************************************************************************)
(* hutt: the mu-server protocol client (src/src/mu_client.rs, mu_sexp.rs)  *)
(* and the event loop that drives it (src/src/tui/mod.rs).                 *)
(*                                                                         *)
(* Three layers are modelled:                                              *)
(*   - s-expression values, plist accessors and the response predicates;   *)
(*   - the client calls ping / find / find_preview / move_msg /            *)
(*     start_index / poll_index_frame as functions of the unread frame     *)
(*     stream of a session;                                                *)
(*   - the application: triage, undo, account switch and the run loop      *)
(*     with its tokio::select! over keys, IPC, index frames and jobs.      *)
(***************************************************************************)
EXTENDS Integers, Sequences, FiniteSets, TLC

VARIABLES
    pipe,        \* frames the server has written and the client has not read
    srv,         \* frames the server will still write, in order
    closed,      \* the server has closed its stdout
    last,        \* record of the most recent client call on the session
    idxOut,      \* the (index) command of the current session: "none" was
                 \* sent, "sent" and unanswered, or "answered"
    store,       \* the server's database: message -> docid, maildir, flags
    nextDocid,   \* the docid the server hands out next
    pc,          \* position of the run loop: "top", "select", "done"
    indexing,    \* App.indexing
    needs_reindex, \* App.needs_reindex
    active_account, \* App.active_account
    envelopes,   \* App.envelopes
    undo_stack,  \* App.undo_stack.entries
    keyPending,  \* key events waiting in the terminal event stream
    ipcPending,  \* commands waiting in the IPC channel
    jobs,        \* background shell jobs still running
    shellPending, \* job results waiting in the shell channel
    lastMove,    \* the most recent move command: the docid it named and
                 \* the docids the server held when it arrived
    buf,         \* FrameReader.buf: bytes read from stdout and not yet drained
    stdout,      \* bytes the server wrote that FrameReader has not read yet
    frame,       \* the latest iteration of FrameReader::next_frame: the
                 \* buffer it parsed, what read_frame said, how it went on
    child,       \* the mu server processes spawned so far, in order: each
                 \* "running", "exited" or "killed" (MuClient.child)
    clients,     \* the processes whose MuClient object is alive
    app_mu,      \* the process of App.mu, 0 while there is no App
    input,       \* the argument a pure function was last applied to
    output,      \* what that function returned
    status_message \* App.status_message, the text of the status line, as
                 \* StatusSpec follows it

vars == <<pipe, srv, closed, last, idxOut, store, nextDocid, pc, indexing,
          needs_reindex, active_account, envelopes, undo_stack, keyPending,
          ipcPending, jobs, shellPending, lastMove, buf, stdout, frame, child, clients, app_mu, input, output,
          status_message>>

readerVars == <<buf, stdout, frame>>
processVars == <<child, clients, app_mu>>
pureVars == <<input, output>>
shownVars == <<status_message>>
sessionVars == <<pipe, srv, closed, last, idxOut, readerVars, processVars,
                 pureVars, shownVars>>
appVars == <<store, nextDocid, pc, indexing, needs_reindex, active_account,
             envelopes, undo_stack, keyPending, ipcPending, jobs, shellPending,
             lastMove>>

-----------------------------------------------------------------------------
(* Bounds of the model.                                                    *)

MaxStream == 4
MaxPollStream == 2

-----------------------------------------------------------------------------
(* lexpr::Value, abstracted to the shapes the client inspects.  A plist is *)
(* a function from its keys to values; a key the plist does not hold maps  *)
(* to Abs.  This is how the accessors see a plist whose keys are distinct  *)
(* and whose values are not keywords; the accessors on the list of items   *)
(* are list_get and its companions further down.                           *)

Abs == [t |-> "abs"]
Nil == [t |-> "nil"]
Sym(s) == [t |-> "sym", s |-> s]
Num(n) == [t |-> "num", n |-> n]
Str(s) == [t |-> "str", s |-> s]
Lst(items) == [t |-> "list", items |-> items]
Pl(kv) == [t |-> "plist", kv |-> kv]

\* A step and its continuation: F applied to the value of v, which is
\* computed once.
Then(v, F(_)) == CHOOSE r \in {F(x) : x \in {v}} : TRUE

None == [some |-> FALSE]
Some(x) == [some |-> TRUE, v |-> x]

FrameKeys == {"erase", "error", "message", "found", "pong", "headers",
              "update", "index", "info"}
HeaderKeys == {"docid", "message-id", "maildir", "flags"}

EmptyFrame == [k \in FrameKeys |-> Abs]
EmptyHeader == [k \in HeaderKeys |-> Abs]

\* plist_get: the value following the keyword, if the plist holds it.
plist_get(plist, key) ==
    IF key \in DOMAIN plist /\ plist[key].t # "abs" THEN Some(plist[key]) ELSE None

\* plist_get_str: only a string value counts.
plist_get_str(plist, key) ==
    LET g == plist_get(plist, key)
    IN IF g.some /\ g.v.t = "str" THEN Some(g.v.s) ELSE None

\* plist_get_u32: as_u64 (non-negative integers only), then `as u32`.  The
\* numbers of this model stay below 2^31, where the cast changes nothing.
plist_get_u32(plist, key) ==
    LET g == plist_get(plist, key)
    IN IF g.some /\ g.v.t = "num" /\ g.v.n >= 0 THEN Some(g.v.n) ELSE None

\* plist_get_bool: a symbol is true iff it is t; anything else iff not nil.
plist_get_bool(plist, key) ==
    LET g == plist_get(plist, key)
    IN IF ~g.some THEN None
       ELSE IF g.v.t = "sym" THEN Some(g.v.s = "t")
       ELSE Some(g.v.t # "nil")

is_erase(value) ==
    LET b == plist_get_bool(value, "erase") IN IF b.some THEN b.v ELSE FALSE

\* is_error: Some(text) when the :error key is present; the text prefers
\* :message, then a string :error, then "error code N", then a fallback.
is_error(value) ==
    IF plist_get(value, "error").some
    THEN IF plist_get_str(value, "message").some
           THEN Some([kind |-> "text", s |-> plist_get_str(value, "message").v])
         ELSE IF plist_get_str(value, "error").some
           THEN Some([kind |-> "text", s |-> plist_get_str(value, "error").v])
         ELSE IF plist_get_u32(value, "error").some
           THEN Some([kind |-> "code", n |-> plist_get_u32(value, "error").v])
         ELSE Some([kind |-> "unknown"])
    ELSE None

is_found(value) == plist_get_u32(value, "found")

\* An is_pong that accepts a :pong key with a value of any type.
is_pong_any_value(value) == plist_get(value, "pong").some

is_pong(value) == plist_get_str(value, "pong").some

is_update(value) == plist_get(value, "update").some

-----------------------------------------------------------------------------
(* Results of the client calls (anyhow::Result).                           *)

Ok(v) == [ok |-> TRUE, v |-> v]
Err(kind, ctx, text) == [ok |-> FALSE, kind |-> kind, ctx |-> ctx, text |-> text]
NoText == [kind |-> "none"]
\* A read that never returns: the pipe is empty and the server is alive.
Blocked == [ok |-> FALSE, kind |-> "blocked", ctx |-> "", text |-> NoText]

\* parse_envelope: the docid is required, the rest has defaults.
parse_envelope(h) ==
    LET d == plist_get_u32(h, "docid")
        mid == plist_get_str(h, "message-id")
        md == plist_get_str(h, "maildir")
        fl == plist_get(h, "flags")
    IN IF ~d.some THEN Err("decode", "missing docid in envelope", NoText)
       ELSE Ok([docid |-> d.v,
                message_id |-> IF mid.some THEN mid.v ELSE "",
                maildir |-> IF md.some THEN md.v ELSE "",
                flags |-> IF fl.some /\ fl.v.t = "list" THEN fl.v.items ELSE <<>>])

RECURSIVE ParseHeaders(_, _, _)
\* The collect() of parse_find_response: envelopes in list order, or the
\* first decode failure.
ParseHeaders(items, i, acc) ==
    IF i > Len(items) THEN Ok(acc)
    ELSE LET e == parse_envelope(items[i])
         IN IF e.ok THEN ParseHeaders(items, i + 1, Append(acc, e.v)) ELSE e

parse_find_response(value) ==
    LET h == plist_get(value, "headers")
    IN IF h.some /\ h.v.t = "list" THEN ParseHeaders(h.v.items, 1, <<>>)
       ELSE Ok(<<>>)

-----------------------------------------------------------------------------
(* The read side of a session.  `st` is the sequence of frames the client  *)
(* can still read (buffered or yet to be written by the server), `cl`      *)
(* tells whether the server closes its stdout after them.  Every reader    *)
(* returns [n, res]: the number of frames it consumed and its result.      *)

\* FrameReader::next_frame at the end of the stream: read() returns 0 when
\* the server closed stdout, and never returns while it is alive and silent.
EndOfStream(cl) ==
    IF cl THEN Err("transport", "mu server closed stdout", NoText) ELSE Blocked

next_frame(st, i, cl) ==
    IF i <= Len(st) THEN [n |-> i, res |-> Ok(st[i])]
    ELSE [n |-> Len(st), res |-> EndOfStream(cl)]

\* A recv that hands an :erase frame to its caller instead of skipping it.
recv_noskip(st, i, cl) ==
    LET r == next_frame(st, i, cl)
    IN IF ~r.res.ok THEN r
       ELSE IF is_error(r.res.v).some
         THEN [n |-> r.n, res |-> Err("frame", "mu server error", is_error(r.res.v).v)]
       ELSE r

RECURSIVE recv(_, _, _)
\* MuClient::recv: skip :erase frames, fail on an :error frame, else return
\* the frame.
recv(st, i, cl) ==
    LET r == next_frame(st, i, cl)
    IN IF ~r.res.ok THEN r
       ELSE IF is_erase(r.res.v) THEN recv(st, i + 1, cl)
       ELSE IF is_error(r.res.v).some
         THEN [n |-> r.n, res |-> Err("frame", "mu server error", is_error(r.res.v).v)]
       ELSE r

\* MuClient::ping after the send.
ping_read(st, cl) ==
    LET r == recv(st, 1, cl)
    IN IF ~r.res.ok THEN r
       ELSE IF ~is_pong(r.res.v)
         THEN [n |-> r.n, res |-> Err("proto", "expected pong", NoText)]
       ELSE [n |-> r.n, res |-> Ok([pong |-> TRUE])]

\* A find that puts each new batch in front of the earlier ones.
AppendBatch_prepend(envs, batch) == batch \o envs

\* envelopes.append(&mut batch)
AppendBatch(envs, batch) == envs \o batch

RECURSIVE find_loop(_, _, _, _)
\* The loop of MuClient::find after the send.
find_loop(st, i, cl, envs) ==
    LET r == next_frame(st, i, cl)
    IN IF ~r.res.ok THEN r
       ELSE IF is_erase(r.res.v) THEN find_loop(st, i + 1, cl, envs)
       ELSE IF is_error(r.res.v).some
         THEN [n |-> r.n, res |-> Err("frame", "mu find error", is_error(r.res.v).v)]
       ELSE IF is_found(r.res.v).some THEN [n |-> r.n, res |-> Ok([envelopes |-> envs])]
       ELSE LET batch == parse_find_response(r.res.v)
            IN IF ~batch.ok THEN [n |-> r.n, res |-> batch]
               ELSE find_loop(st, i + 1, cl, AppendBatch(envs, batch.v))

\* A find that hands back what it has when the stream ends.
find_read_partial(st, cl) ==
    LET r == find_loop(st, 1, cl, <<>>)
    IN IF ~r.res.ok /\ r.res.kind = "transport"
         THEN [n |-> r.n, res |-> Ok([envelopes |-> <<>>])]
       ELSE r

find_read(st, cl) == find_loop(st, 1, cl, <<>>)

RECURSIVE find_preview_loop(_, _, _, _)
\* The loop of MuClient::find_preview: as find, and the :found count.
find_preview_loop(st, i, cl, envs) ==
    LET r == next_frame(st, i, cl)
    IN IF ~r.res.ok THEN r
       ELSE IF is_erase(r.res.v) THEN find_preview_loop(st, i + 1, cl, envs)
       ELSE IF is_error(r.res.v).some
         THEN [n |-> r.n, res |-> Err("frame", "mu find error", is_error(r.res.v).v)]
       ELSE IF is_found(r.res.v).some
         THEN [n |-> r.n, res |-> Ok([envelopes |-> envs, count |-> is_found(r.res.v).v])]
       ELSE LET batch == parse_find_response(r.res.v)
            IN IF ~batch.ok THEN [n |-> r.n, res |-> batch]
               ELSE find_preview_loop(st, i + 1, cl, envs \o batch.v)

\* A find_preview that returns the count and drops the envelopes.
find_preview_read_count_only(st, cl) ==
    LET r == find_preview_loop(st, 1, cl, <<>>)
    IN IF r.res.ok
         THEN [n |-> r.n, res |-> Ok([envelopes |-> <<>>, count |-> r.res.v.count])]
       ELSE r

find_preview_read(st, cl) == find_preview_loop(st, 1, cl, <<>>)

\* A move_msg that fails when the response names no new docid.
move_read_strict(st, cl, docid) ==
    LET r == recv(st, 1, cl)
    IN IF ~r.res.ok THEN r
       ELSE LET u == plist_get(r.res.v, "update")
                d == IF u.some /\ u.v.t = "plist"
                       THEN plist_get_u32(u.v.kv, "docid") ELSE None
            IN IF d.some THEN [n |-> r.n, res |-> Ok([docid |-> d.v])]
               ELSE [n |-> r.n, res |-> Err("proto", "no docid in update", NoText)]

\* MuClient::move_msg after the send: the docid of the :update plist, or
\* the docid that was passed in.
move_read(st, cl, docid) ==
    LET r == recv(st, 1, cl)
    IN IF ~r.res.ok THEN r
       ELSE LET u == plist_get(r.res.v, "update")
                d == IF u.some /\ u.v.t = "plist"
                       THEN plist_get_u32(u.v.kv, "docid") ELSE None
            IN [n |-> r.n, res |-> Ok([docid |-> IF d.some THEN d.v ELSE docid])]

\* A poll that knows only the :index completion key.
poll_index_frame_index_only(st, cl) ==
    LET r == next_frame(st, 1, cl)
    IN IF ~r.res.ok THEN r
       ELSE IF is_erase(r.res.v) THEN [n |-> r.n, res |-> Ok([done |-> FALSE])]
       ELSE IF is_error(r.res.v).some
         THEN [n |-> r.n, res |-> Err("frame", "mu index error", is_error(r.res.v).v)]
       ELSE IF plist_get(r.res.v, "index").some THEN [n |-> r.n, res |-> Ok([done |-> TRUE])]
       ELSE [n |-> r.n, res |-> Ok([done |-> FALSE])]

\* MuClient::poll_index_frame: one frame, classified.
poll_index_frame(st, cl) ==
    LET r == next_frame(st, 1, cl)
    IN IF ~r.res.ok THEN r
       ELSE IF is_erase(r.res.v) THEN [n |-> r.n, res |-> Ok([done |-> FALSE])]
       ELSE IF is_error(r.res.v).some
         THEN [n |-> r.n, res |-> Err("frame", "mu index error", is_error(r.res.v).v)]
       ELSE IF plist_get(r.res.v, "index").some THEN [n |-> r.n, res |-> Ok([done |-> TRUE])]
       ELSE IF plist_get(r.res.v, "info").some THEN [n |-> r.n, res |-> Ok([done |-> TRUE])]
       ELSE IF is_update(r.res.v) THEN [n |-> r.n, res |-> Ok([done |-> FALSE])]
       ELSE [n |-> r.n, res |-> Ok([done |-> FALSE])]

-----------------------------------------------------------------------------
(* A session: the unread frames, each tagged with the command the server   *)
(* wrote it for (`op`) and whether it ends that command's response         *)
(* (`term`).  The tags are bookkeeping of the model; the client reads only *)
(* the frame `f`.                                                          *)

Tag(op, resp) == [i \in 1..Len(resp) |-> [f |-> resp[i], op |-> op, term |-> i = Len(resp)]]
Wire(tagged) == [i \in 1..Len(tagged) |-> tagged[i].f]
Drop(seq, k) == IF k >= Len(seq) THEN <<>> ELSE SubSeq(seq, k + 1, Len(seq))

Session == [pipe |-> pipe, srv |-> srv, closed |-> closed, last |-> last, idxOut |-> idxOut]
Unread(s) == s.pipe \o s.srv

NoCall == [op |-> "none", arg |-> 0, pre |-> <<>>, read |-> <<>>, res |-> Ok([none |-> TRUE])]
CallRec(op, arg, pre, read, res) ==
    [op |-> op, arg |-> arg, pre |-> pre, read |-> read, res |-> res]

\* MuClient::send on a live server: the server takes the command and will
\* answer with `resp`; with `dies` it exits after writing that.
Sent(s, op, resp, dies) ==
    [s EXCEPT !.srv = @ \o Tag(op, resp), !.closed = dies]

\* MuClient::send to a server that has exited: the write fails and the `?`
\* returns before anything is read.
SendFailed(s, op, arg) ==
    [s EXCEPT !.last = CallRec(op, arg, Unread(s), <<>>,
                               Err("transport", "write to mu stdin", NoText))]

\* The session after a reader consumed r.n frames of s1 with result r.res;
\* s0 is the session before the send.
Done(s0, s1, op, arg, r) ==
    LET Consumed(rv) ==
          LET readf == SubSeq(Unread(s1), 1, rv.n)
              fromPipe == IF rv.n <= Len(s1.pipe) THEN rv.n ELSE Len(s1.pipe)
          IN [pipe |-> Drop(s1.pipe, fromPipe),
              srv |-> Drop(s1.srv, rv.n - fromPipe),
              closed |-> s1.closed,
              last |-> CallRec(op, arg, Unread(s0), readf, rv.res),
              idxOut |-> IF \E i \in 1..Len(readf) :
                                readf[i].op = "index" /\ readf[i].term
                           THEN "answered" ELSE s1.idxOut]
    IN Then(r, Consumed)

Ping(s, resp, dies) ==
    IF s.closed THEN SendFailed(s, "ping", 0)
    ELSE LET s1 == Sent(s, "ping", resp, dies)
         IN Done(s, s1, "ping", 0, ping_read(Wire(Unread(s1)), s1.closed))

Find(s, resp, dies) ==
    IF s.closed THEN SendFailed(s, "find", 0)
    ELSE LET s1 == Sent(s, "find", resp, dies)
         IN Done(s, s1, "find", 0, find_read(Wire(Unread(s1)), s1.closed))

FindPreview(s, resp, dies) ==
    IF s.closed THEN SendFailed(s, "find_preview", 0)
    ELSE LET s1 == Sent(s, "find_preview", resp, dies)
         IN Done(s, s1, "find_preview", 0, find_preview_read(Wire(Unread(s1)), s1.closed))

MoveMsg(s, docid, resp, dies) ==
    IF s.closed THEN SendFailed(s, "move", docid)
    ELSE LET s1 == Sent(s, "move", resp, dies)
         IN Done(s, s1, "move", docid, move_read(Wire(Unread(s1)), s1.closed, docid))

\* MuClient::start_index: the send alone.
StartIndex(s, resp, dies) ==
    IF s.closed THEN SendFailed(s, "index", 0)
    ELSE [Sent(s, "index", resp, dies) EXCEPT
            !.last = CallRec("index", 0, Unread(s), <<>>, Ok([sent |-> TRUE])),
            !.idxOut = "sent"]

\* MuClient::poll_index_frame on what the server has written so far.
PollIndexFrame(s) ==
    Done(s, s, "poll", 0, poll_index_frame(Wire(s.pipe), s.closed /\ s.srv = <<>>))

-----------------------------------------------------------------------------
(* Frames of the mu protocol.                                              *)

FErase == [EmptyFrame EXCEPT !["erase"] = Sym("t")]
FErrMsg == [EmptyFrame EXCEPT !["error"] = Num(2), !["message"] = Str("boom")]
FErrStr == [EmptyFrame EXCEPT !["error"] = Str("bad")]
FErrNum == [EmptyFrame EXCEPT !["error"] = Num(2)]
FErrSym == [EmptyFrame EXCEPT !["error"] = Sym("oops")]
FFound(n) == [EmptyFrame EXCEPT !["found"] = Num(n)]
FPong == [EmptyFrame EXCEPT !["pong"] = Str("mu")]
FHeaders(items) == [EmptyFrame EXCEPT !["headers"] = Lst(items)]
FUpdate(d) == [EmptyFrame EXCEPT !["update"] = Pl([docid |-> Num(d)])]
FIndex == [EmptyFrame EXCEPT !["index"] = Sym("complete")]
FInfo == [EmptyFrame EXCEPT !["info"] = Sym("index")]
\* A frame with none of the keys the client looks for, e.g. (:progress 1).
FOther == EmptyFrame
\* (:erase nil): the key is there, the flag is off.
FEraseNil == [EmptyFrame EXCEPT !["erase"] = Nil]

Header(d, mid, md, fl) ==
    [EmptyHeader EXCEPT !["docid"] = Num(d), !["message-id"] = Str(mid),
                        !["maildir"] = Str(md), !["flags"] = Lst(fl)]
\* A header plist without :docid.
BadHeader == [EmptyHeader EXCEPT !["message-id"] = Str("m9")]

BatchA == <<Header(11, "m1", "/Inbox", <<>>), Header(12, "m2", "/Inbox", <<>>)>>
BatchB == <<Header(13, "m3", "/Inbox", <<>>)>>
BatchBad == <<BadHeader>>

SeqsUpTo(S, n) == UNION {[1..k -> S] : k \in 0..n}

-----------------------------------------------------------------------------
(* ClientSpec: the blocking calls, applied to every response stream of at  *)
(* most MaxStream frames.  The server is alive and silent after the        *)
(* stream.                                                                 *)

NoMove == [called |-> FALSE, arg |-> 0, live |-> {}]

\* A FrameReader that has read nothing: FrameReader::new.
NoFrame == [before |-> <<>>, res |-> [ok |-> TRUE, v |-> None], ret |-> "none"]
ReaderIdle ==
    /\ buf = <<>>
    /\ stdout = <<>>
    /\ frame = NoFrame

\* The one server process of a session, running and owned by App.mu.
ProcessIdle ==
    /\ child = <<"running">>
    /\ clients = {1}
    /\ app_mu = 1

\* No pure function has been applied.
StatusIdle == status_message = None

PureIdle ==
    /\ input = <<>>
    /\ output = <<>>

ClientFrames == {FErase, FErrMsg, FErrNum, FFound(3), FHeaders(BatchA),
                 FHeaders(BatchB), FHeaders(BatchBad), FPong}

AppIdle ==
    /\ store = <<>>
    /\ nextDocid = 1
    /\ pc = "none"
    /\ indexing = FALSE
    /\ needs_reindex = FALSE
    /\ active_account = 0
    /\ envelopes = <<>>
    /\ undo_stack = <<>>
    /\ keyPending = 0
    /\ ipcPending = 0
    /\ jobs = 0
    /\ shellPending = 0
    /\ lastMove = NoMove

SetSessionFields(s) ==
    /\ pipe' = s.pipe
    /\ srv' = s.srv
    /\ closed' = s.closed
    /\ last' = s.last
    /\ idxOut' = s.idxOut
    /\ UNCHANGED <<readerVars, processVars, pureVars>>

SetSession(s) ==
    /\ SetSessionFields(s)
    /\ UNCHANGED shownVars

ClientInit ==
    /\ \E st \in SeqsUpTo(ClientFrames, MaxStream) : pipe = Tag("stream", st)
    /\ srv = <<>>
    /\ closed = FALSE
    /\ last = NoCall
    /\ idxOut = "none"
    /\ ReaderIdle
    /\ ProcessIdle
    /\ PureIdle
    /\ StatusIdle
    /\ AppIdle

\* The client is not stuck in a read that never returns.
Responsive == IF last.res.ok THEN TRUE ELSE last.res.kind # "blocked"

CPing == /\ Responsive
         /\ SetSession(Ping(Session, <<>>, FALSE))
         /\ UNCHANGED appVars

CFind == /\ Responsive
         /\ SetSession(Find(Session, <<>>, FALSE))
         /\ UNCHANGED appVars

CFindPreview == /\ Responsive
                /\ SetSession(FindPreview(Session, <<>>, FALSE))
                /\ UNCHANGED appVars

CMove == /\ Responsive
         /\ SetSession(MoveMsg(Session, 7, <<>>, FALSE))
         /\ UNCHANGED appVars

ClientNext == CPing \/ CFind \/ CFindPreview \/ CMove

ClientSpec == ClientInit /\ [][ClientNext]_vars

-----------------------------------------------------------------------------
(* PollSpec: poll_index_frame, applied to every stream of at most          *)
(* MaxPollStream frames of any kind.                                       *)

AllFrames == ClientFrames \cup {FErrStr, FErrSym, FUpdate(21), FIndex, FInfo,
                               FOther, FEraseNil}

PollInit ==
    /\ \E st \in SeqsUpTo(AllFrames, MaxPollStream) : pipe = Tag("index", st)
    /\ srv = <<>>
    /\ closed \in BOOLEAN
    /\ last = NoCall
    /\ idxOut = "sent"
    /\ ReaderIdle
    /\ ProcessIdle
    /\ PureIdle
    /\ StatusIdle
    /\ AppIdle

CPoll == /\ Responsive
         /\ SetSession(PollIndexFrame(Session))
         /\ UNCHANGED appVars

PollNext == CPoll

PollSpec == PollInit /\ [][PollNext]_vars

-----------------------------------------------------------------------------
(* The mu server behind a session, as far as the application can tell: a   *)
(* database of messages, each with a docid, a maildir and a flag string.   *)

NumAccounts == 2
MaxPending == 1
MaxJobs == 1
MaxDocid == 4
MaxUndo == 2

Inbox == "/Inbox"
Archive == "/Archive"

\* flags_from_string, for the flag character F that ToggleStar toggles.
flags_from_string(str) == IF str = "F" THEN <<Sym("flagged")>> ELSE <<>>

\* Envelope::flags_string
flags_string(flags) ==
    IF \E i \in 1..Len(flags) : flags[i] = Sym("flagged") THEN "F" ELSE ""

HeaderOf(m) == Header(m.docid, m.mid, m.maildir, flags_from_string(m.flags))

IsInbox(m) == m.maildir = Inbox

\* The answer to a find on the current folder: the listing, a query error,
\* or a listing with a header that lacks :docid.
ServerFind(db, variant) ==
    IF variant = "error" THEN <<FErrMsg>>
    ELSE IF variant = "bad" THEN <<FHeaders(BatchBad), FFound(1)>>
    ELSE LET hits == SelectSeq(db, IsInbox)
         IN <<FErase>>
            \o (IF hits = <<>> THEN <<>>
                ELSE <<FHeaders([i \in 1..Len(hits) |-> HeaderOf(hits[i])])>>)
            \o <<FFound(Len(hits))>>

\* The answer to a move: the message is renamed and reported under its
\* docid, which the server may renumber; an unknown docid is an error.
ServerMove(db, next, docid, maildir, flags, renumber) ==
    IF \E i \in 1..Len(db) : db[i].docid = docid
    THEN LET i == CHOOSE j \in 1..Len(db) : db[j].docid = docid
             d == IF renumber THEN next ELSE docid
             m == [db[i] EXCEPT !.docid = d,
                                !.maildir = IF maildir.some THEN maildir.v ELSE @,
                                !.flags = IF flags.some THEN flags.v ELSE @]
         IN [db |-> [db EXCEPT ![i] = m],
             next |-> IF renumber THEN next + 1 ELSE next,
             resp |-> <<FUpdate(d)>>]
    ELSE [db |-> db, next |-> next, resp |-> <<FErrMsg>>]

\* The answer to (index): progress and a completion marker, or an error.
ServerIndex(variant) ==
    IF variant = "info" THEN <<FOther, FInfo>> ELSE <<FErrMsg>>

FindVariants == {"ok", "error", "bad"}
IndexVariants == {"info", "error"}

-----------------------------------------------------------------------------
(* App: the fields of the application that the handlers below touch.       *)

App == [mu |-> Session, store |-> store, nextDocid |-> nextDocid,
        indexing |-> indexing, needs_reindex |-> needs_reindex,
        active_account |-> active_account, envelopes |-> envelopes,
        undo_stack |-> undo_stack, jobs |-> jobs, lastMove |-> lastMove]

SetAppFields(a) ==
    /\ SetSessionFields(a.mu)
    /\ store' = a.store
    /\ nextDocid' = a.nextDocid
    /\ indexing' = a.indexing
    /\ needs_reindex' = a.needs_reindex
    /\ active_account' = a.active_account
    /\ envelopes' = a.envelopes
    /\ undo_stack' = a.undo_stack
    /\ jobs' = a.jobs
    /\ lastMove' = a.lastMove

SetApp(a) ==
    /\ SetAppFields(a)
    /\ UNCHANGED shownVars

\* The result of the client call a handler has just made.
Failed(a) == ~a.mu.last.res.ok

\* App::load_folder: find on the current folder; the envelopes are replaced
\* only when the find succeeds.
load_folder(a, ch) ==
    LET Loaded(s1) ==
          [a EXCEPT !.mu = s1,
                    !.envelopes = IF s1.last.res.ok THEN s1.last.res.v.envelopes
                                                    ELSE @]
    IN Then(Find(a.mu, ServerFind(a.store, ch.find), FALSE), Loaded)

\* self.mu.move_msg(docid, maildir, flags), with the server's side of it.
move_msg(a, docid, maildir, flags, ch) ==
    IF a.mu.closed THEN [a EXCEPT !.mu = MoveMsg(a.mu, docid, <<>>, FALSE)]
    ELSE LET sv == ServerMove(a.store, a.nextDocid, docid, maildir, flags, ch.renumber)
         IN [a EXCEPT !.mu = MoveMsg(a.mu, docid, sv.resp, FALSE),
                      !.store = sv.db,
                      !.nextDocid = sv.next,
                      !.lastMove = [called |-> TRUE, arg |-> docid,
                                    live |-> {a.store[i].docid : i \in 1..Len(a.store)}]]

\* App::triage_targets with nothing multi-selected and the cursor on the
\* first envelope.
triage_targets(a) ==
    IF a.envelopes = <<>> THEN <<>>
    ELSE <<[docid |-> a.envelopes[1].docid, maildir |-> a.envelopes[1].maildir,
            flags |-> flags_string(a.envelopes[1].flags)]>>

UndoEntry(docid, maildir, flags) ==
    [docid |-> docid, original_maildir |-> maildir, original_flags |-> flags]

\* self.envelopes.retain(|e| !removed.contains(&e.docid))
Retain(envs, docid) ==
    LET keep(e) == e.docid # docid IN SelectSeq(envs, keep)

\* App::triage_move
triage_move(a, dest, ch) ==
    LET t == triage_targets(a)
    IN IF t = <<>> THEN a
       ELSE LET Moved(a1) ==
                  IF Failed(a1) THEN a1
                  ELSE [a1 EXCEPT
                          !.undo_stack = Append(@, UndoEntry(a1.mu.last.res.v.docid,
                                                             t[1].maildir, t[1].flags)),
                          !.envelopes = Retain(@, t[1].docid)]
            IN Then(move_msg(a, t[1].docid, Some(dest), None, ch), Moved)

\* flags.contains(flag_char), then remove or append it.
ToggleFlag(flags) == IF flags = "F" THEN "" ELSE "F"

\* The first envelope with this docid gets the new docid and flags.
UpdateEnvelope(envs, docid, new_docid, new_flags) ==
    IF \E i \in 1..Len(envs) : envs[i].docid = docid
    THEN LET i == CHOOSE j \in 1..Len(envs) :
                     /\ envs[j].docid = docid
                     /\ \A k \in 1..(j - 1) : envs[k].docid # docid
         IN [envs EXCEPT ![i] = [@ EXCEPT !.docid = new_docid,
                                          !.flags = flags_from_string(new_flags)]]
    ELSE envs

\* App::triage_toggle_flag
triage_toggle_flag(a, ch) ==
    LET t == triage_targets(a)
    IN IF t = <<>> THEN a
       ELSE LET new_flags == ToggleFlag(t[1].flags)
                Moved(a1) ==
                  IF Failed(a1) THEN a1
                  ELSE [a1 EXCEPT
                          !.undo_stack = Append(@, UndoEntry(a1.mu.last.res.v.docid,
                                                             t[1].maildir, t[1].flags)),
                          !.envelopes = UpdateEnvelope(@, t[1].docid,
                                                       a1.mu.last.res.v.docid,
                                                       new_flags)]
            IN Then(move_msg(a, t[1].docid, None, Some(new_flags), ch), Moved)

\* App::undo, for the MoveMessage entries: the entry is popped, the message
\* moved back under the docid the entry holds, and the folder reloaded.
undo(a, ch) ==
    IF a.undo_stack = <<>> THEN a
    ELSE LET e == a.undo_stack[Len(a.undo_stack)]
             a0 == [a EXCEPT !.undo_stack = SubSeq(@, 1, Len(@) - 1)]
             Moved(a1) == IF Failed(a1) THEN a1 ELSE load_folder(a1, ch)
         IN Then(move_msg(a0, e.docid, Some(e.original_maildir),
                          IF e.original_flags = "" THEN None
                                                   ELSE Some(e.original_flags),
                          ch),
                 Moved)

NewSession == [pipe |-> <<>>, srv |-> <<>>, closed |-> FALSE, last |-> NoCall,
               idxOut |-> "none"]

\* App::switch_account: the server is quit and a new one started and
\* pinged; the account's state is cleared and its inbox loaded.  The new
\* account's mailbox is empty.
switch_account(a, index, ch) ==
    IF index = a.active_account \/ index >= NumAccounts THEN a
    ELSE LET Started(s1) ==
               IF ~s1.last.res.ok THEN [a EXCEPT !.mu = s1]
               ELSE load_folder([a EXCEPT !.mu = s1,
                                          !.store = <<>>,
                                          !.active_account = index,
                                          !.envelopes = <<>>,
                                          !.undo_stack = <<>>], ch)
         IN Then(Ping(NewSession, <<FPong>>, FALSE), Started)

\* App::navigate_folder, to the inbox: the folder the model lists.
navigate_folder(a, ch) == load_folder(a, ch)

Actions == {"GoInbox", "NextAccount", "SyncMail", "ToggleStar", "MoveToFolder",
            "Undo", "MoveDown"}

\* App::handle_action, for the actions of Actions; SyncMail starts its
\* command in the background, MoveToFolder moves to the archive.
handle_action(a, action, ch) ==
    CASE action = "GoInbox" -> navigate_folder(a, ch)
      [] action = "NextAccount" ->
            switch_account(a, (a.active_account + 1) % NumAccounts, ch)
      [] action = "SyncMail" -> [a EXCEPT !.jobs = @ + 1]
      [] action = "ToggleStar" -> triage_toggle_flag(a, ch)
      [] action = "MoveToFolder" -> triage_move(a, Archive, ch)
      [] action = "Undo" -> undo(a, ch)
      [] OTHER -> a

IpcCommands == {"Navigate", "Compose"}

\* App::handle_ipc_command: Navigate loads the folder, a compose request
\* talks to no server.
handle_ipc_command(a, cmd, ch) ==
    IF cmd = "Navigate" THEN navigate_folder(a, ch) ELSE a

-----------------------------------------------------------------------------
(* run: one iteration of the loop is LoopTop followed by one arm of the    *)
(* select!.  Keys, IPC commands and job results queue up beside it, and    *)
(* the server writes the frames it owes one at a time.                     *)

\* What the server does with the commands of one handler.  A query error or
\* a broken header is only drawn on a session with nothing unread, which
\* keeps the unread frames of a session bounded.
Choices ==
    {ch \in [find : FindVariants, renumber : {FALSE}] :
        ch.find # "ok" => pipe \o srv = <<>>}

\* A start that sends (index) for every request, whether or not an index
\* is in flight.
start_reindex_unguarded(a, variant) ==
    IF a.needs_reindex
    THEN LET Sending(s1) == [a EXCEPT !.needs_reindex = FALSE,
                                      !.mu = s1,
                                      !.indexing = s1.last.res.ok]
         IN Then(StartIndex(a.mu, ServerIndex(variant), FALSE), Sending)
    ELSE a

\* The start of an iteration: send (index) if a reindex was requested and
\* none is running.
start_reindex(a, variant) ==
    IF a.needs_reindex /\ ~a.indexing
    THEN LET Sending(s1) == [a EXCEPT !.needs_reindex = FALSE,
                                      !.mu = s1,
                                      !.indexing = s1.last.res.ok]
         IN Then(StartIndex(a.mu, ServerIndex(variant), FALSE), Sending)
    ELSE a

RECURSIVE drain_ipc(_, _, _)
\* while let Ok(cmd) = ipc_rx.try_recv() { handle_ipc_command(cmd) }
drain_ipc(a, cmds, i) ==
    IF i > Len(cmds) THEN a
    ELSE LET Rest(a1) == drain_ipc(a1, cmds, i + 1)
         IN Then(handle_ipc_command(a, cmds[i].cmd, cmds[i].ch), Rest)

\* The start of an iteration, up to the select!.
loop_top(a, variant, cmds) ==
    LET Drain(a1) == drain_ipc(a1, cmds, 1)
    IN Then(start_reindex(a, variant), Drain)

\* poll_index_frame has something to return: a frame, or the end of stream.
PollReady(s) == s.pipe # <<>> \/ (s.closed /\ s.srv = <<>>)

\* A select! that waits for the index frame alone while indexing.
ReadyArms_index_first ==
    IF indexing
    THEN (IF PollReady(Session) THEN {"index"} ELSE {})
    ELSE {"timeout"}
         \cup (IF keyPending > 0 THEN {"key"} ELSE {})
         \cup (IF ipcPending > 0 THEN {"ipc"} ELSE {})
         \cup (IF shellPending > 0 THEN {"shell"} ELSE {})

\* The arms of the select! whose future can complete in this state.
ReadyArms ==
    {"timeout"}
    \cup (IF keyPending > 0 THEN {"key"} ELSE {})
    \cup (IF ipcPending > 0 THEN {"ipc"} ELSE {})
    \cup (IF indexing /\ PollReady(Session) THEN {"index"} ELSE {})
    \cup (IF shellPending > 0 THEN {"shell"} ELSE {})

\* The select! is reached and completes with this arm.
CanFire(arm) == pc = "select" /\ arm \in ReadyArms

\* The body of the index arm.
index_arm(a, ch) ==
    LET Polled(s1) ==
          LET r == s1.last.res
              a1 == [a EXCEPT !.mu = s1]
          IN IF ~r.ok THEN [a1 EXCEPT !.indexing = FALSE]
             ELSE IF r.v.done THEN load_folder([a1 EXCEPT !.indexing = FALSE], ch)
             ELSE a1
    IN Then(PollIndexFrame(a.mu), Polled)

\* The body of the shell arm: a job that succeeded asks for a reindex.
shell_arm(a, success) ==
    IF success THEN [a EXCEPT !.needs_reindex = TRUE] ELSE a

Init ==
    /\ pipe = <<>>
    /\ srv = <<>>
    /\ closed = FALSE
    /\ last = NoCall
    /\ idxOut = "none"
    /\ ReaderIdle
    /\ ProcessIdle
    /\ PureIdle
    /\ StatusIdle
    /\ store = <<>>
    /\ nextDocid = 1
    /\ pc = "top"
    /\ indexing = FALSE
    /\ needs_reindex = FALSE
    /\ active_account = 0
    /\ envelopes = <<>>
    /\ undo_stack = <<>>
    /\ keyPending = 0
    /\ ipcPending = 0
    /\ jobs = 0
    /\ shellPending = 0
    /\ lastMove = NoMove

LoopTop ==
    /\ pc = "top"
    /\ \E iv \in IndexVariants :
       \E cmds \in [1..ipcPending -> [cmd : IpcCommands, ch : Choices]] :
          SetApp(loop_top(App, iv, cmds))
    /\ ipcPending' = 0
    /\ pc' = "select"
    /\ UNCHANGED <<keyPending, shellPending>>

KeyArm ==
    /\ CanFire("key")
    /\ \E action \in Actions, ch \in Choices :
          /\ action = "SyncMail" => jobs + shellPending < MaxJobs
          /\ SetApp(handle_action(App, action, ch))
    /\ keyPending' = keyPending - 1
    /\ pc' = "top"
    /\ UNCHANGED <<ipcPending, shellPending>>

IpcArm ==
    /\ CanFire("ipc")
    /\ \E cmd \in IpcCommands, ch \in Choices :
          SetApp(handle_ipc_command(App, cmd, ch))
    /\ ipcPending' = ipcPending - 1
    /\ pc' = "top"
    /\ UNCHANGED <<keyPending, shellPending>>

IndexArm ==
    /\ CanFire("index")
    /\ \E ch \in Choices : SetApp(index_arm(App, ch))
    /\ pc' = "top"
    /\ UNCHANGED <<keyPending, ipcPending, shellPending>>

ShellArm ==
    /\ CanFire("shell")
    /\ \E success \in BOOLEAN : SetApp(shell_arm(App, success))
    /\ shellPending' = shellPending - 1
    /\ pc' = "top"
    /\ UNCHANGED <<keyPending, ipcPending>>

TimeoutArm ==
    /\ CanFire("timeout")
    /\ pc' = "top"
    /\ UNCHANGED <<sessionVars, store, nextDocid, indexing, needs_reindex,
                   active_account, envelopes, undo_stack, keyPending,
                   ipcPending, jobs, shellPending, lastMove>>

KeyPress ==
    /\ keyPending < MaxPending
    /\ keyPending' = keyPending + 1
    /\ UNCHANGED <<sessionVars, store, nextDocid, pc, indexing, needs_reindex,
                   active_account, envelopes, undo_stack, ipcPending, jobs,
                   shellPending, lastMove>>

IpcArrive ==
    /\ ipcPending < MaxPending
    /\ ipcPending' = ipcPending + 1
    /\ UNCHANGED <<sessionVars, store, nextDocid, pc, indexing, needs_reindex,
                   active_account, envelopes, undo_stack, keyPending, jobs,
                   shellPending, lastMove>>

JobExit ==
    /\ jobs > 0
    /\ jobs' = jobs - 1
    /\ shellPending' = shellPending + 1
    /\ UNCHANGED <<sessionVars, store, nextDocid, pc, indexing, needs_reindex,
                   active_account, envelopes, undo_stack, keyPending,
                   ipcPending, lastMove>>

ServerEmit ==
    /\ srv # <<>>
    /\ pipe' = Append(pipe, Head(srv))
    /\ srv' = Tail(srv)
    /\ UNCHANGED <<closed, last, idxOut, readerVars, processVars, pureVars, shownVars>>
    /\ UNCHANGED appVars

Next ==
    \/ LoopTop
    \/ KeyArm
    \/ IpcArm
    \/ IndexArm
    \/ ShellArm
    \/ TimeoutArm
    \/ KeyPress
    \/ IpcArrive
    \/ JobExit
    \/ ServerEmit

Spec == Init /\ [][Next]_vars

-----------------------------------------------------------------------------
(* ReindexSpec: the run loop beside a server that may exit at any time,    *)
(* after which every send on the session fails; the IPC channel stays      *)
(* empty.                                                                  *)

\* The mu server process exits: what it had not yet written is never
\* written, and its stdout is at its end.
ServerExit ==
    /\ ~closed
    /\ closed' = TRUE
    /\ srv' = <<>>
    /\ UNCHANGED <<pipe, last, idxOut, readerVars, processVars, pureVars, shownVars>>
    /\ UNCHANGED appVars

ReindexNext ==
    \/ LoopTop
    \/ KeyArm
    \/ IndexArm
    \/ ShellArm
    \/ TimeoutArm
    \/ KeyPress
    \/ JobExit
    \/ ServerEmit
    \/ ServerExit

ReindexSpec == Init /\ [][ReindexNext]_vars

\* A step of the index arm: the one arm that makes a client call and takes
\* nothing from the three queues.
IndexStep ==
    /\ CanFire("index")
    /\ pc' = "top"
    /\ last' # last
    /\ UNCHANGED <<keyPending, ipcPending, shellPending>>

\* The loop under fair scheduling: an iteration that has started reaches
\* its select! (weak fairness of LoopTop, which is enabled exactly when pc
\* is "top"), the select! does not wait beyond its timeout, the server
\* writes what it owes, and an index arm that is ready again and again is
\* taken again and again (strong fairness of IndexArm, written on its guard
\* CanFire("index") and its steps IndexStep).
FairSpec ==
    /\ Spec
    /\ []<>(pc = "select")
    /\ WF_vars(TimeoutArm)
    /\ WF_vars(ServerEmit)
    /\ ([]<>CanFire("index") => []<><<IndexStep>>_vars)

-----------------------------------------------------------------------------
(* TriageSpec: the triage keys and undo on a mailbox of one message.  The  *)
(* server answers every command in full before the next key.               *)

TriageChoices == [find : {"ok"}, renumber : BOOLEAN]

TriageInit ==
    /\ pipe = <<>>
    /\ srv = <<>>
    /\ closed = FALSE
    /\ last = NoCall
    /\ idxOut = "none"
    /\ ReaderIdle
    /\ ProcessIdle
    /\ PureIdle
    /\ StatusIdle
    /\ store = <<[docid |-> 1, mid |-> "m1", maildir |-> Inbox, flags |-> ""]>>
    /\ nextDocid = 2
    /\ pc = "keys"
    /\ indexing = FALSE
    /\ needs_reindex = FALSE
    /\ active_account = 0
    /\ envelopes = <<>>
    /\ undo_stack = <<>>
    /\ keyPending = 0
    /\ ipcPending = 0
    /\ jobs = 0
    /\ shellPending = 0
    /\ lastMove = NoMove

TKey(action) ==
    /\ \E ch \in TriageChoices :
          /\ ch.renumber => nextDocid <= MaxDocid
          /\ SetApp(handle_action(App, action, ch))
    /\ UNCHANGED <<pc, keyPending, ipcPending, shellPending>>

TGoInbox == pc = "keys" /\ TKey("GoInbox")

TToggleStar == Len(undo_stack) < MaxUndo /\ TKey("ToggleStar")

TMoveToFolder == Len(undo_stack) < MaxUndo /\ TKey("MoveToFolder")

TUndo == pc = "keys" /\ TKey("Undo")

TriageNext == TGoInbox \/ TToggleStar \/ TMoveToFolder \/ TUndo

TriageSpec == TriageInit /\ [][TriageNext]_vars

-----------------------------------------------------------------------------
(* TransportSpec: the client calls against a server that may exit.  Each   *)
(* command is answered with a response of at most MaxResp frames, after    *)
(* which the server either stays alive or closes its stdout.               *)

MaxResp == 2

TransportFrames == {FErase, FHeaders(BatchB), FFound(3), FPong}

TransportInit ==
    /\ pipe = <<>>
    /\ srv = <<>>
    /\ closed = FALSE
    /\ last = NoCall
    /\ idxOut = "none"
    /\ ReaderIdle
    /\ ProcessIdle
    /\ PureIdle
    /\ StatusIdle
    /\ AppIdle

\* The response the server writes to the next command, and whether it
\* exits after it.  A command sent while frames are unread gets no frames
\* of its own.
Answers == {a \in [resp : SeqsUpTo(TransportFrames, MaxResp), dies : BOOLEAN] :
                a.resp # <<>> => pipe \o srv = <<>>}

TPing == /\ Responsive
         /\ \E a \in Answers : SetSession(Ping(Session, a.resp, a.dies))
         /\ UNCHANGED appVars

TFind == /\ Responsive
         /\ \E a \in Answers : SetSession(Find(Session, a.resp, a.dies))
         /\ UNCHANGED appVars

TFindPreview ==
    /\ Responsive
    /\ \E a \in Answers : SetSession(FindPreview(Session, a.resp, a.dies))
    /\ UNCHANGED appVars

TMove == /\ Responsive
         /\ \E a \in Answers : SetSession(MoveMsg(Session, 7, a.resp, a.dies))
         /\ UNCHANGED appVars

TStartIndex ==
    /\ Responsive
    /\ \E a \in Answers : SetSession(StartIndex(Session, a.resp, a.dies))
    /\ UNCHANGED appVars

\* The poll of the event loop: it is awaited to the end only when a frame
\* or the end of the stream is there to be read.
TPoll == /\ Responsive
         /\ idxOut # "none"
         /\ PollReady(Session)
         /\ SetSession(PollIndexFrame(Session))
         /\ UNCHANGED appVars

TransportNext ==
    TPing \/ TFind \/ TFindPreview \/ TMove \/ TStartIndex \/ TPoll \/ ServerEmit

TransportSpec == TransportInit /\ [][TransportNext]_vars

-----------------------------------------------------------------------------
(* MoveSpec: move_msg against every response of at most MaxMoveResp frames *)
(* from a server that may exit after writing it.                           *)

MaxMoveResp == 2

\* (:update (:maildir "/Archive")): an :update plist without :docid.
FUpdateNoDocid == [EmptyFrame EXCEPT !["update"] = Pl([maildir |-> Str("/Archive")])]
\* (:update (:docid "21")): the docid is a string.
FUpdateStrDocid == [EmptyFrame EXCEPT !["update"] = Pl([docid |-> Str("21")])]
\* (:update (:docid -1)): the docid is not an unsigned integer.
FUpdateNegDocid == [EmptyFrame EXCEPT !["update"] = Pl([docid |-> Num(-1)])]
\* (:update t): the value of :update is no plist.
FUpdateSym == [EmptyFrame EXCEPT !["update"] = Sym("t")]

MoveFrames == {FErase, FErrMsg, FUpdate(21), FUpdateNoDocid, FUpdateStrDocid,
               FUpdateNegDocid, FUpdateSym, FPong}

MoveAnswers == {a \in [resp : SeqsUpTo(MoveFrames, MaxMoveResp), dies : BOOLEAN] :
                    a.resp # <<>> => pipe \o srv = <<>>}

MMove == /\ Responsive
         /\ \E a \in MoveAnswers, docid \in {7, 8} :
               SetSession(MoveMsg(Session, docid, a.resp, a.dies))
         /\ UNCHANGED appVars

MoveNext == MMove

MoveSpec == TransportInit /\ [][MoveNext]_vars

-----------------------------------------------------------------------------
(* FoundSpec: find and find_preview on streams whose frames carry a :found *)
(* key with values of several types.  The server is alive and silent after *)
(* the stream.                                                             *)

MaxFoundStream == 3

\* (:found "3"), (:found nil) and (:found -1).
FFoundStr == [EmptyFrame EXCEPT !["found"] = Str("3")]
FFoundNil == [EmptyFrame EXCEPT !["found"] = Nil]
FFoundNeg == [EmptyFrame EXCEPT !["found"] = Num(-1)]

FoundFrames == {FErase, FHeaders(BatchB), FFound(3), FFound(0), FFoundStr,
                FFoundNil, FFoundNeg}

FoundInit ==
    /\ \E st \in SeqsUpTo(FoundFrames, MaxFoundStream) : pipe = Tag("find", st)
    /\ srv = <<>>
    /\ closed = FALSE
    /\ last = NoCall
    /\ idxOut = "none"
    /\ ReaderIdle
    /\ ProcessIdle
    /\ PureIdle
    /\ StatusIdle
    /\ AppIdle

FoundNext == CFind \/ CFindPreview

FoundSpec == FoundInit /\ [][FoundNext]_vars

-----------------------------------------------------------------------------
(* PreviewSpec: the command texts of find and find_preview, and the two    *)
(* calls on every response stream of at most MaxPreviewStream frames.  A   *)
(* query is a sequence of characters, a command text a string.             *)

MaxPreviewStream == 3

RECURSIVE Replace(_, _, _)
\* str::replace on a sequence of characters: every `c` becomes `by`.
Replace(chars, c, by) ==
    IF chars = <<>> THEN <<>>
    ELSE (IF Head(chars) = c THEN by ELSE <<Head(chars)>>) \o Replace(Tail(chars), c, by)

RECURSIVE Text(_)
\* The string made of the characters.
Text(chars) == IF chars = <<>> THEN "" ELSE Head(chars) \o Text(Tail(chars))

\* escape_string on characters: backslashes are doubled, then quotes get a
\* backslash.
escape_chars_quotes_first(chars) ==
    Replace(Replace(chars, "\"", <<"\\", "\"">>), "\\", <<"\\", "\\">>)

escape_chars(chars) ==
    Replace(Replace(chars, "\\", <<"\\", "\\">>), "\"", <<"\\", "\"">>)

\* escape_string, as a string.
escape_string(chars) == Text(escape_chars(chars))

DecimalDigits == <<"0", "1", "2", "3", "4", "5", "6", "7", "8", "9">>

RECURSIVE Decimal(_)
\* The {} of format! for an unsigned number.
Decimal(n) ==
    IF n < 10 THEN DecimalDigits[n + 1]
    ELSE Decimal(n \div 10) \o DecimalDigits[(n % 10) + 1]

\* FindOpts::default()
DefaultFindOpts ==
    [threads |-> TRUE, sort_field |-> "date", descending |-> TRUE,
     max_num |-> 500, include_related |-> FALSE]

\* The command text MuClient::find sends.
find_command(query, opts) ==
    "(find :query \"" \o escape_string(query) \o "\" :sortfield :" \o opts.sort_field
        \o " :maxnum " \o Decimal(opts.max_num)
        \o (IF opts.threads THEN " :threads t" ELSE "")
        \o (IF opts.descending THEN " :descending t" ELSE "")
        \o (IF opts.include_related THEN " :include-related t" ELSE "")
        \o ")"

\* The command text MuClient::find_preview sends.
find_preview_command(query, max_num) ==
    "(find :query \"" \o escape_string(query) \o "\" :sortfield :date :maxnum "
        \o Decimal(max_num) \o " :threads t :descending t)"

Queries == {<<"a">>, <<"a", "\"", "\\">>}
MaxNums == {5, 500}
\* The options find is called with: the defaults with a result cap, and
\* those of App::open_thread.
SomeFindOpts ==
    {[DefaultFindOpts EXCEPT !.max_num = n] : n \in MaxNums}
    \cup {[DefaultFindOpts EXCEPT !.descending = FALSE, !.include_related = TRUE]}

PreviewFrames == {FErase, FErrMsg, FFound(3), FHeaders(BatchA), FHeaders(BatchB),
                  FHeaders(BatchBad)}

PreviewInit ==
    /\ \E st \in SeqsUpTo(PreviewFrames, MaxPreviewStream) : pipe = Tag("find", st)
    /\ srv = <<>>
    /\ closed = FALSE
    /\ last = NoCall
    /\ idxOut = "none"
    /\ ReaderIdle
    /\ ProcessIdle
    /\ PureIdle
    /\ StatusIdle
    /\ AppIdle

\* find(query, opts); the server may exit when it has taken the command.
PFind ==
    /\ Responsive
    /\ \E q \in Queries, opts \in SomeFindOpts, dies \in BOOLEAN :
          SetSession([Find(Session, <<>>, dies) EXCEPT
                        !.last.arg = [query |-> q, max_num |-> opts.max_num,
                                      cmd |-> find_command(q, opts)]])
    /\ UNCHANGED appVars

\* find_preview(query, max_num)
PFindPreview ==
    /\ Responsive
    /\ \E q \in Queries, n \in MaxNums, dies \in BOOLEAN :
          SetSession([FindPreview(Session, <<>>, dies) EXCEPT
                        !.last.arg = [query |-> q, max_num |-> n,
                                      cmd |-> find_preview_command(q, n)]])
    /\ UNCHANGED appVars

PreviewNext == PFind \/ PFindPreview

PreviewSpec == PreviewInit /\ [][PreviewNext]_vars

-----------------------------------------------------------------------------
(* PingSpec: ping on every response stream of at most MaxPingStream frames *)
(* from a server that stays alive or exits after taking the command.       *)

MaxPingStream == 3

\* The command text of MuClient::ping.
ping_command == "(ping)"

\* (:pong t): the value under :pong is no string.
FPongSym == [EmptyFrame EXCEPT !["pong"] = Sym("t")]
\* (:error 2 :pong "mu"): an error frame that also carries :pong.
FErrPong == [EmptyFrame EXCEPT !["error"] = Num(2), !["pong"] = Str("mu")]
\* (:erase t :pong "mu"): an :erase frame that also carries :pong.
FErasePong == [EmptyFrame EXCEPT !["erase"] = Sym("t"), !["pong"] = Str("mu")]

PingFrames == {FErase, FPong, FPongSym, FErrMsg, FErrPong, FErasePong, FOther}

PingInit ==
    /\ \E st \in SeqsUpTo(PingFrames, MaxPingStream) : pipe = Tag("ping", st)
    /\ srv = <<>>
    /\ closed = FALSE
    /\ last = NoCall
    /\ idxOut = "none"
    /\ ReaderIdle
    /\ ProcessIdle
    /\ PureIdle
    /\ StatusIdle
    /\ AppIdle

PPing ==
    /\ Responsive
    /\ \E dies \in BOOLEAN :
          SetSession([Ping(Session, <<>>, dies) EXCEPT
                        !.last.arg = [cmd |-> ping_command]])
    /\ UNCHANGED appVars

PingNext == PPing

PingSpec == PingInit /\ [][PingNext]_vars

-----------------------------------------------------------------------------
(* StartSpec: MuClient::start against every welcome of at most             *)
(* MaxStartStream frames, and the calls made on the client it returns.     *)
(* pc is "start" before the call, "ready" when it returned a client,       *)
(* "failed" when it returned an error and "starting" while its read never  *)
(* returns.                                                                *)

MaxStartStream == 2

\* A start that returns the client whatever the ping gave.
MuClientStart_unchecked(resp, dies) ==
    [client |-> TRUE, mu |-> Ping(NewSession, resp, dies)]

\* MuClient::start: spawn the server, ping it, and return the client only
\* when the ping succeeded.  `mu` is the session the handshake ran on.
MuClientStart(resp, dies) ==
    LET Checked(s1) == [client |-> s1.last.res.ok, mu |-> s1]
    IN Then(Ping(NewSession, resp, dies), Checked)

StartInit ==
    /\ pipe = <<>>
    /\ srv = <<>>
    /\ closed = FALSE
    /\ last = NoCall
    /\ idxOut = "none"
    /\ ReaderIdle
    /\ ProcessIdle
    /\ PureIdle
    /\ StatusIdle
    /\ store = <<>>
    /\ nextDocid = 1
    /\ pc = "start"
    /\ indexing = FALSE
    /\ needs_reindex = FALSE
    /\ active_account = 0
    /\ envelopes = <<>>
    /\ undo_stack = <<>>
    /\ keyPending = 0
    /\ ipcPending = 0
    /\ jobs = 0
    /\ shellPending = 0
    /\ lastMove = NoMove

startVars == <<store, nextDocid, indexing, needs_reindex, active_account,
               envelopes, undo_stack, keyPending, ipcPending, jobs,
               shellPending, lastMove>>

Start ==
    /\ pc = "start"
    /\ \E resp \in SeqsUpTo(PingFrames, MaxStartStream), dies \in BOOLEAN :
          LET r == MuClientStart(resp, dies)
          IN /\ SetSession(r.mu)
             /\ pc' = IF r.client THEN "ready"
                      ELSE IF r.mu.last.res.kind = "blocked" THEN "starting"
                      ELSE "failed"
    /\ UNCHANGED startVars

\* The server's answer to a command sent on a session with nothing unread.
Answer(resp) == IF pipe \o srv = <<>> THEN resp ELSE <<>>

SPing == /\ pc = "ready" /\ Responsive
         /\ \E dies \in BOOLEAN : SetSession(Ping(Session, Answer(<<FPong>>), dies))
         /\ UNCHANGED appVars

SFind == /\ pc = "ready" /\ Responsive
         /\ \E dies \in BOOLEAN :
               SetSession(Find(Session, Answer(<<FErase, FFound(0)>>), dies))
         /\ UNCHANGED appVars

SMove == /\ pc = "ready" /\ Responsive
         /\ \E dies \in BOOLEAN :
               SetSession(MoveMsg(Session, 7, Answer(<<FUpdate(21)>>), dies))
         /\ UNCHANGED appVars

StartNext == Start \/ SPing \/ SFind \/ SMove

StartSpec == StartInit /\ [][StartNext]_vars

-----------------------------------------------------------------------------
(* SelectSpec: triage of a multi-message selection.  The inbox holds two   *)
(* messages; the user selects some of the listed envelopes and moves them  *)
(* or toggles their flag.  For each move of the call the server renames    *)
(* the message, with or without a new docid, or refuses with an error.     *)

MaxSelectDocid == 5
MaxSelectUndo == 4

\* App::triage_targets: the envelopes of selected_set in list order, or
\* the envelope under the cursor (the first) when nothing is selected.
triage_targets_selected(a, selected_set) ==
    IF selected_set # {}
    THEN LET picked(e) == e.docid \in selected_set
             hits == SelectSeq(a.envelopes, picked)
         IN [i \in 1..Len(hits) |->
               [docid |-> hits[i].docid, maildir |-> hits[i].maildir,
                flags |-> flags_string(hits[i].flags)]]
    ELSE triage_targets(a)

\* self.mu.move_msg(..) against a server that may refuse the move.
move_msg_answered(a, docid, maildir, flags, ch) ==
    IF ch.refuses /\ ~a.mu.closed
    THEN [a EXCEPT !.mu = MoveMsg(a.mu, docid, <<FErrMsg>>, FALSE)]
    ELSE move_msg(a, docid, maildir, flags, ch)

\* self.envelopes.retain(|e| !removed.contains(&e.docid))
RetainNot(envs, removed) ==
    LET keep(e) == e.docid \notin removed IN SelectSeq(envs, keep)

\* The for loop of App::triage_move from target i on: each move is awaited
\* with `?` and its undo entry pushed.
RECURSIVE triage_move_loop(_, _, _, _, _)
triage_move_loop(a, targets, i, dest, chs) ==
    IF i > Len(targets) THEN a
    ELSE LET Moved(a1) ==
               IF Failed(a1) THEN a1
               ELSE triage_move_loop(
                      [a1 EXCEPT !.undo_stack =
                          Append(@, UndoEntry(a1.mu.last.res.v.docid,
                                              targets[i].maildir, targets[i].flags))],
                      targets, i + 1, dest, chs)
         IN Then(move_msg_answered(a, targets[i].docid, Some(dest), None, chs[i]),
                 Moved)

\* App::triage_move on a selection: the loop, and after it the retain that
\* takes the targets out of the list.
triage_move_selected(a, selected_set, dest, chs) ==
    LET targets == triage_targets_selected(a, selected_set)
        Looped(a1) ==
          IF Failed(a1) THEN a1
          ELSE [a1 EXCEPT !.envelopes =
                   RetainNot(@, {targets[i].docid : i \in 1..Len(targets)})]
    IN IF targets = <<>> THEN a
       ELSE Then(triage_move_loop(a, targets, 1, dest, chs), Looped)

\* The for loop of App::triage_toggle_flag from target i on: each move is
\* awaited with `?`, its undo entry pushed and its envelope updated.
RECURSIVE triage_toggle_flag_loop(_, _, _, _)
triage_toggle_flag_loop(a, targets, i, chs) ==
    IF i > Len(targets) THEN a
    ELSE LET new_flags == ToggleFlag(targets[i].flags)
             Moved(a1) ==
               IF Failed(a1) THEN a1
               ELSE triage_toggle_flag_loop(
                      [a1 EXCEPT
                         !.undo_stack =
                            Append(@, UndoEntry(a1.mu.last.res.v.docid,
                                                targets[i].maildir, targets[i].flags)),
                         !.envelopes =
                            UpdateEnvelope(@, targets[i].docid,
                                           a1.mu.last.res.v.docid, new_flags)],
                      targets, i + 1, chs)
         IN Then(move_msg_answered(a, targets[i].docid, None, Some(new_flags),
                                   chs[i]),
                 Moved)

\* App::triage_toggle_flag on a selection.
triage_toggle_flag_selected(a, selected_set, chs) ==
    LET targets == triage_targets_selected(a, selected_set)
    IN IF targets = <<>> THEN a
       ELSE triage_toggle_flag_loop(a, targets, 1, chs)

SelectChoices == [find : {"ok"}, renumber : BOOLEAN, refuses : BOOLEAN]

SelectInit ==
    /\ pipe = <<>>
    /\ srv = <<>>
    /\ closed = FALSE
    /\ last = NoCall
    /\ idxOut = "none"
    /\ ReaderIdle
    /\ ProcessIdle
    /\ PureIdle
    /\ StatusIdle
    /\ store = <<[docid |-> 1, mid |-> "m1", maildir |-> Inbox, flags |-> ""],
                 [docid |-> 2, mid |-> "m2", maildir |-> Inbox, flags |-> "F"]>>
    /\ nextDocid = 3
    /\ pc = "keys"
    /\ indexing = FALSE
    /\ needs_reindex = FALSE
    /\ active_account = 0
    /\ envelopes = <<>>
    /\ undo_stack = <<>>
    /\ keyPending = 0
    /\ ipcPending = 0
    /\ jobs = 0
    /\ shellPending = 0
    /\ lastMove = NoMove

\* What the user may have selected: any of the listed envelopes.
Selections == SUBSET {envelopes[i].docid : i \in 1..Len(envelopes)}

SelectDone(a) ==
    /\ a.nextDocid <= MaxSelectDocid
    /\ Len(a.undo_stack) <= MaxSelectUndo
    /\ SetApp(a)
    /\ UNCHANGED <<pc, keyPending, ipcPending, shellPending>>

SelGoInbox ==
    \E ch \in SelectChoices :
       ~ch.refuses /\ ~ch.renumber /\ SelectDone(navigate_folder(App, ch))

SelMove ==
    \E selected_set \in Selections, chs \in [1..2 -> SelectChoices] :
       /\ envelopes # <<>>
       /\ SelectDone(triage_move_selected(App, selected_set, Archive, chs))

SelToggle ==
    \E selected_set \in Selections, chs \in [1..2 -> SelectChoices] :
       /\ envelopes # <<>>
       /\ SelectDone(triage_toggle_flag_selected(App, selected_set, chs))

SelectNext == SelGoInbox \/ SelMove \/ SelToggle

SelectSpec == SelectInit /\ [][SelectNext]_vars

-----------------------------------------------------------------------------
(* StatusSpec: the run loop with the status line.  The inbox holds one     *)
(* message, the initial folder load has succeeded, and the keys are        *)
(* GoInbox, MoveToFolder (to the archive), SyncMail and Quit.  A status    *)
(* text is written as its format string; h is a handler's view of the      *)
(* application: the App, the status line and, once the handler returned,   *)
(* whether it returned Ok.                                                 *)

Handled(a, status, ok) == [app |-> a, status |-> status, ok |-> ok]

\* App::set_status
set_status(h, msg) == [h EXCEPT !.status = Some(msg)]

\* App::clear_stale_status: the text goes once it is three seconds old.
clear_stale_status(status, stale) == IF stale THEN None ELSE status

\* App::navigate_folder: `load_folder().await?`, then the status.
navigate_folder_shown(h, ch) ==
    LET Loaded(a1) ==
          IF Failed(a1) THEN Handled(a1, h.status, FALSE)
          ELSE set_status(Handled(a1, h.status, TRUE), "Switched to {}")
    IN Then(load_folder(h.app, ch), Loaded)

\* App::triage_move: Ok at once without targets, the `?` of its move, or
\* the status after the loop.
triage_move_shown(h, dest, ch) ==
    LET Moved(a1) ==
          IF Failed(a1) THEN Handled(a1, h.status, FALSE)
          ELSE set_status(Handled(a1, h.status, TRUE), "{} {} message(s)")
    IN IF triage_targets(h.app) = <<>> THEN Handled(h.app, h.status, TRUE)
       ELSE Then(triage_move_selected(h.app, {}, dest, <<ch>>), Moved)

StatusActions == {"GoInbox", "MoveToFolder", "SyncMail", "Quit"}

\* App::handle_action
handle_action_shown(h, action, ch) ==
    CASE action = "GoInbox" -> navigate_folder_shown(h, ch)
      [] action = "MoveToFolder" -> triage_move_shown(h, Archive, ch)
      [] action = "SyncMail" ->
            set_status(Handled([h.app EXCEPT !.jobs = @ + 1], h.status, TRUE),
                       "Syncing: {}...")
      [] OTHER -> Handled(h.app, h.status, TRUE)

\* App::handle_ipc_command: the error of navigate_folder goes to the debug
\* log and the command returns Ok(()).
handle_ipc_command_shown(h, cmd, ch) ==
    IF cmd = "Navigate"
    THEN [navigate_folder_shown(h, ch) EXCEPT !.ok = TRUE]
    ELSE set_status(Handled(h.app, h.status, TRUE), "Compose from URL")

\* if let Err(e) = app.handle_ipc_command(cmd).await { set_status(..) }
ipc_shown(h, cmd, ch) ==
    LET Returned(h1) == IF h1.ok THEN h1 ELSE set_status(h1, "IPC error: {}")
    IN Then(handle_ipc_command_shown(h, cmd, ch), Returned)

\* if let Err(e) = app.handle_action(action).await { set_status(..) }
key_shown(h, action, ch) ==
    LET Returned(h1) == IF h1.ok THEN h1 ELSE set_status(h1, "Error: {}")
    IN Then(handle_action_shown(h, action, ch), Returned)

\* The reindex start of an iteration with its two status texts.
start_reindex_shown(h, variant) ==
    LET Answered(a1) ==
          set_status(Handled(a1, h.status, TRUE),
                     IF a1.indexing THEN "Reindexing..." ELSE "Reindex error: {}")
    IN IF h.app.needs_reindex /\ ~h.app.indexing
       THEN Then(start_reindex(h.app, variant), Answered)
       ELSE h

RECURSIVE drain_ipc_shown(_, _, _)
drain_ipc_shown(h, cmds, i) ==
    IF i > Len(cmds) THEN h
    ELSE LET Rest(h1) == drain_ipc_shown(h1, cmds, i + 1)
         IN Then(ipc_shown(h, cmds[i].cmd, cmds[i].ch), Rest)

\* The start of an iteration, up to the select!.
loop_top_shown(h, stale, variant, cmds) ==
    LET Drain(h1) == drain_ipc_shown(h1, cmds, 1)
    IN Then(start_reindex_shown([h EXCEPT !.status = clear_stale_status(@, stale)],
                                variant),
            Drain)

\* The body of the index arm: a failed reload after the completion marker
\* goes to the debug log, under the text "Reindex complete".
index_arm_shown(h, ch) ==
    LET Polled(s1) ==
          LET r == s1.last.res
              a1 == [h.app EXCEPT !.mu = s1]
          IN IF ~r.ok
             THEN set_status(Handled([a1 EXCEPT !.indexing = FALSE], h.status, TRUE),
                             "Reindex error: {}")
             ELSE IF r.v.done
             THEN set_status(Handled(load_folder([a1 EXCEPT !.indexing = FALSE], ch),
                                     h.status, TRUE),
                             "Reindex complete")
             ELSE Handled(a1, h.status, TRUE)
    IN Then(PollIndexFrame(h.app.mu), Polled)

\* The body of the shell arm.
shell_arm_shown(h, success) ==
    set_status(Handled(shell_arm(h.app, success), h.status, TRUE),
               IF success THEN "Done: {}" ELSE "Exited {}: {}")

\* What the server does with the commands of one handler: it answers a
\* find with the listing or a query error and may refuse a move.  Like a
\* query error, a refused move is only drawn on a session with nothing
\* unread.
StatusChoices ==
    {ch \in [find : {"ok", "error"}, renumber : {FALSE}, refuses : BOOLEAN] :
        (ch.find # "ok" \/ ch.refuses) => pipe \o srv = <<>>}

Shown == Handled(App, status_message, TRUE)

SetShown(h) ==
    /\ SetAppFields(h.app)
    /\ status_message' = h.status

\* The state after run's first load_folder.
StatusInit ==
    /\ pipe = <<>>
    /\ srv = <<>>
    /\ closed = FALSE
    /\ last = NoCall
    /\ idxOut = "none"
    /\ ReaderIdle
    /\ ProcessIdle
    /\ PureIdle
    /\ StatusIdle
    /\ store = <<[docid |-> 1, mid |-> "m1", maildir |-> Inbox, flags |-> ""]>>
    /\ nextDocid = 2
    /\ pc = "top"
    /\ indexing = FALSE
    /\ needs_reindex = FALSE
    /\ active_account = 0
    /\ envelopes = <<[docid |-> 1, message_id |-> "m1", maildir |-> Inbox,
                      flags |-> <<>>]>>
    /\ undo_stack = <<>>
    /\ keyPending = 0
    /\ ipcPending = 0
    /\ jobs = 0
    /\ shellPending = 0
    /\ lastMove = NoMove

StatusLoopTop ==
    /\ pc = "top"
    /\ \E stale \in BOOLEAN, iv \in IndexVariants :
       \E cmds \in [1..ipcPending -> [cmd : IpcCommands, ch : StatusChoices]] :
          SetShown(loop_top_shown(Shown, stale, iv, cmds))
    /\ ipcPending' = 0
    /\ pc' = "select"
    /\ UNCHANGED <<keyPending, shellPending>>

\* The key arm; after Quit the next iteration breaks out of the loop.
StatusKeyArm ==
    /\ CanFire("key")
    /\ \E action \in StatusActions, ch \in StatusChoices :
          /\ action = "SyncMail" => jobs + shellPending < MaxJobs
          /\ SetShown(key_shown(Shown, action, ch))
          /\ pc' = IF action = "Quit" THEN "done" ELSE "top"
    /\ keyPending' = keyPending - 1
    /\ UNCHANGED <<ipcPending, shellPending>>

StatusIpcArm ==
    /\ CanFire("ipc")
    /\ \E cmd \in IpcCommands, ch \in StatusChoices :
          SetShown(ipc_shown(Shown, cmd, ch))
    /\ ipcPending' = ipcPending - 1
    /\ pc' = "top"
    /\ UNCHANGED <<keyPending, shellPending>>

StatusIndexArm ==
    /\ CanFire("index")
    /\ \E ch \in StatusChoices : SetShown(index_arm_shown(Shown, ch))
    /\ pc' = "top"
    /\ UNCHANGED <<keyPending, ipcPending, shellPending>>

StatusShellArm ==
    /\ CanFire("shell")
    /\ \E success \in BOOLEAN : SetShown(shell_arm_shown(Shown, success))
    /\ shellPending' = shellPending - 1
    /\ pc' = "top"
    /\ UNCHANGED <<keyPending, ipcPending>>

StatusNext ==
    \/ StatusLoopTop
    \/ StatusKeyArm
    \/ StatusIpcArm
    \/ StatusIndexArm
    \/ StatusShellArm
    \/ TimeoutArm
    \/ KeyPress
    \/ IpcArrive
    \/ JobExit
    \/ ServerEmit

StatusSpec == StatusInit /\ [][StatusNext]_vars

-----------------------------------------------------------------------------
(* LifeSpec: the lifetime of the server processes.  main starts a client   *)
(* and hands it to the App; run switches accounts, ends with quit or ends  *)
(* with an error; a server may exit on its own.  pc is "main" before       *)
(* MuClient::start, "run" inside the event loop, "starting" or "quitting"  *)
(* while a handshake or a wait never returns, and "exit" after main.       *)

MaxSpawn == 3

\* What a starting server may write before it falls silent or exits.
LifeFrames == {FErase, FPong, FErrMsg}

Processes == [child |-> child, clients |-> clients, app_mu |-> app_mu]

\* A drop that destroys the client and leaves its process alone.
MuClientDrop_forget(p, c) == [p EXCEPT !.clients = @ \ {c}]

\* impl Drop for MuClient: start_kill on the child; a process that has
\* exited already is not affected.
MuClientDrop(p, c) ==
    [p EXCEPT !.child[c] = IF @ = "running" THEN "killed" ELSE @,
              !.clients = @ \ {c}]

\* MuClient::quit: (quit) is sent and the child waited for; `obeys` is
\* whether a running server exits on the command.  The result is Ok
\* whenever the wait returns.
quit(p, c, obeys) ==
    [p |-> [p EXCEPT !.child[c] = IF @ = "running" /\ obeys THEN "exited" ELSE @],
     returns |-> p.child[c] # "running" \/ obeys]

\* MuClient::start with its process: the child is spawned, the client
\* built around it and pinged; a failed ping drops the client at the `?`.
\* `client` is the process of the client returned, 0 for none.
spawn_and_start(p, resp, dies) ==
    LET c == Len(p.child) + 1
        Handshaken(r) ==
          LET born == [p EXCEPT !.child = Append(@, IF r.mu.closed THEN "exited"
                                                                     ELSE "running"),
                                !.clients = @ \cup {c}]
          IN IF r.client THEN [p |-> born, client |-> c, mu |-> r.mu, returns |-> TRUE]
             ELSE IF r.mu.last.res.kind = "blocked"
                  THEN [p |-> born, client |-> 0, mu |-> r.mu, returns |-> FALSE]
             ELSE [p |-> MuClientDrop(born, c), client |-> 0, mu |-> r.mu,
                   returns |-> TRUE]
    IN Then(MuClientStart(resp, dies), Handshaken)

SetMu(s) ==
    /\ pipe' = s.pipe
    /\ srv' = s.srv
    /\ closed' = s.closed
    /\ last' = s.last
    /\ idxOut' = s.idxOut
    /\ UNCHANGED <<readerVars, pureVars, shownVars>>

SetProcesses(p) ==
    /\ child' = p.child
    /\ clients' = p.clients
    /\ app_mu' = p.app_mu

LifeInit ==
    /\ pipe = <<>>
    /\ srv = <<>>
    /\ closed = FALSE
    /\ last = NoCall
    /\ idxOut = "none"
    /\ ReaderIdle
    /\ child = <<>>
    /\ clients = {}
    /\ app_mu = 0
    /\ PureIdle
    /\ StatusIdle
    /\ store = <<>>
    /\ nextDocid = 1
    /\ pc = "main"
    /\ indexing = FALSE
    /\ needs_reindex = FALSE
    /\ active_account = 0
    /\ envelopes = <<>>
    /\ undo_stack = <<>>
    /\ keyPending = 0
    /\ ipcPending = 0
    /\ jobs = 0
    /\ shellPending = 0
    /\ lastMove = NoMove

lifeVars == <<store, nextDocid, indexing, needs_reindex, envelopes, undo_stack,
              keyPending, ipcPending, jobs, shellPending, lastMove>>

\* main: MuClient::start(..).await?, then App::new(mu, config).await?.  An
\* error of App::new drops the client it was given.
MainStart ==
    /\ pc = "main"
    /\ \E resp \in SeqsUpTo(LifeFrames, MaxStartStream), dies \in BOOLEAN,
          app_ok \in BOOLEAN :
          LET r == spawn_and_start(Processes, resp, dies)
          IN /\ SetMu(r.mu)
             /\ IF ~r.returns THEN /\ SetProcesses(r.p)
                                   /\ pc' = "starting"
                ELSE IF r.client = 0 THEN /\ SetProcesses(r.p)
                                          /\ pc' = "exit"
                ELSE IF ~app_ok THEN /\ SetProcesses(MuClientDrop(r.p, r.client))
                                     /\ pc' = "exit"
                ELSE /\ SetProcesses([r.p EXCEPT !.app_mu = r.client])
                     /\ pc' = "run"
    /\ UNCHANGED <<lifeVars, active_account>>

\* The server of the session exits on its own.
ServerExits ==
    /\ pc = "run"
    /\ child[app_mu] = "running"
    /\ child' = [child EXCEPT ![app_mu] = "exited"]
    /\ closed' = TRUE
    /\ UNCHANGED <<pipe, srv, last, idxOut, readerVars, pureVars, shownVars, clients, app_mu>>
    /\ UNCHANGED appVars

\* App::switch_account to the other account: quit, ensure_mu_database,
\* MuClient::start, and the assignment to self.mu, which drops the client
\* it replaces.  Each `?` leaves self.mu as it is.
SwitchAccount ==
    /\ pc = "run"
    /\ Len(child) < MaxSpawn
    /\ \E obeys \in BOOLEAN, ensure_ok \in BOOLEAN, dies \in BOOLEAN,
          resp \in SeqsUpTo(LifeFrames, MaxStartStream) :
          LET q == quit(Processes, app_mu, obeys)
              old == [Session EXCEPT !.closed = TRUE]
          IN IF ~q.returns
             THEN /\ SetProcesses(q.p)
                  /\ pc' = "quitting"
                  /\ UNCHANGED <<pipe, srv, closed, last, idxOut, readerVars, pureVars, shownVars,
                                 active_account>>
             ELSE IF ~ensure_ok
             THEN /\ SetProcesses(q.p)
                  /\ SetMu(old)
                  /\ UNCHANGED <<pc, active_account>>
             ELSE LET r == spawn_and_start(q.p, resp, dies)
                  IN IF ~r.returns
                     THEN /\ SetProcesses(r.p)
                          /\ SetMu(r.mu)
                          /\ pc' = "starting"
                          /\ UNCHANGED active_account
                     ELSE IF r.client = 0
                     THEN /\ SetProcesses(r.p)
                          /\ SetMu(old)
                          /\ UNCHANGED <<pc, active_account>>
                     ELSE /\ SetProcesses([MuClientDrop(r.p, app_mu)
                                             EXCEPT !.app_mu = r.client])
                          /\ SetMu(r.mu)
                          /\ active_account' = (active_account + 1) % NumAccounts
                          /\ UNCHANGED pc
    /\ UNCHANGED lifeVars

\* The end of run: app.mu.quit().await?, and the App is dropped with the
\* return.
RunQuit ==
    /\ pc = "run"
    /\ \E obeys \in BOOLEAN :
          LET q == quit(Processes, app_mu, obeys)
          IN IF ~q.returns
             THEN /\ SetProcesses(q.p)
                  /\ pc' = "quitting"
                  /\ UNCHANGED closed
             ELSE /\ SetProcesses([MuClientDrop(q.p, app_mu) EXCEPT !.app_mu = 0])
                  /\ pc' = "exit"
                  /\ closed' = TRUE
    /\ UNCHANGED <<pipe, srv, last, idxOut, readerVars, pureVars, shownVars, lifeVars, active_account>>

\* run returns at one of its `?` (the terminal, the first load_folder):
\* the App is dropped without a quit.
RunFails ==
    /\ pc = "run"
    /\ SetProcesses([MuClientDrop(Processes, app_mu) EXCEPT !.app_mu = 0])
    /\ pc' = "exit"
    /\ UNCHANGED <<pipe, srv, closed, last, idxOut, readerVars, pureVars, shownVars, lifeVars,
                   active_account>>

LifeNext == MainStart \/ ServerExits \/ SwitchAccount \/ RunQuit \/ RunFails

LifeSpec == LifeInit /\ [][LifeNext]_vars

-----------------------------------------------------------------------------
(* SwitchSpec: App::switch_account with its processes, from an App whose   *)
(* server runs.  `output` records how the latest call went: whether it     *)
(* returned Ok, the step whose `?` returned the error, and `serves`, the   *)
(* account the server of app.mu was started for.                           *)

Switched(ok, step, serves) == [ok |-> ok, step |-> step, serves |-> serves]

SwitchInit ==
    /\ pipe = <<>>
    /\ srv = <<>>
    /\ closed = FALSE
    /\ last = NoCall
    /\ idxOut = "none"
    /\ ReaderIdle
    /\ ProcessIdle
    /\ StatusIdle
    /\ input = <<>>
    /\ output = Switched(TRUE, "none", 0)
    /\ store = <<>>
    /\ nextDocid = 1
    /\ pc = "run"
    /\ indexing = FALSE
    /\ needs_reindex = FALSE
    /\ active_account = 0
    /\ envelopes = <<>>
    /\ undo_stack = <<>>
    /\ keyPending = 0
    /\ ipcPending = 0
    /\ jobs = 0
    /\ shellPending = 0
    /\ lastMove = NoMove

switchFrame == <<readerVars, shownVars, input, nextDocid, indexing, needs_reindex,
                 keyPending, ipcPending, jobs, shellPending, lastMove>>

SetSwitched(p, s, index, loaded, result) ==
    /\ SetProcesses(p)
    /\ pipe' = s.pipe
    /\ srv' = s.srv
    /\ closed' = s.closed
    /\ last' = s.last
    /\ idxOut' = s.idxOut
    /\ active_account' = index
    /\ store' = loaded.store
    /\ envelopes' = loaded.envelopes
    /\ undo_stack' = loaded.undo_stack
    /\ output' = result

\* App::switch_account to the other account, step by step: quit on the
\* current client, ensure_mu_database, MuClient::start, the assignment to
\* self.mu (which drops the client it replaces) and to active_account, the
\* clearing of the account's state, load_folder.  A `?` that returns leaves
\* every later step undone.  The new account's mailbox is empty.
SwitchCall ==
    /\ pc = "run"
    /\ Len(child) < MaxSpawn
    /\ \E obeys \in BOOLEAN, ensure_ok \in BOOLEAN, dies \in BOOLEAN,
          resp \in SeqsUpTo(LifeFrames, MaxStartStream), find \in {"ok", "error"} :
          LET index == (active_account + 1) % NumAccounts
              q == quit(Processes, app_mu, obeys)
              old == [Session EXCEPT !.closed = TRUE]
          IN IF ~q.returns
             THEN /\ SetSwitched(q.p, Session, active_account, App, output)
                  /\ pc' = "quitting"
             ELSE IF ~ensure_ok
             THEN /\ SetSwitched(q.p, old, active_account, App,
                                 Switched(FALSE, "ensure_mu_database", output.serves))
                  /\ UNCHANGED pc
             ELSE LET r == spawn_and_start(q.p, resp, dies)
                      cleared == [App EXCEPT !.mu = r.mu,
                                             !.store = <<>>,
                                             !.active_account = index,
                                             !.envelopes = <<>>,
                                             !.undo_stack = <<>>]
                      loaded == load_folder(cleared, [find |-> find, renumber |-> FALSE])
                  IN IF ~r.returns
                     THEN /\ SetSwitched(r.p, r.mu, active_account, App, output)
                          /\ pc' = "starting"
                     ELSE IF r.client = 0
                     THEN /\ SetSwitched(r.p, old, active_account, App,
                                         Switched(FALSE, "start", output.serves))
                          /\ UNCHANGED pc
                     ELSE /\ SetSwitched([MuClientDrop(r.p, app_mu)
                                            EXCEPT !.app_mu = r.client],
                                         loaded.mu, index, loaded,
                                         Switched(~Failed(loaded),
                                                  IF Failed(loaded) THEN "load_folder"
                                                                    ELSE "none",
                                                  index))
                          /\ UNCHANGED pc
    /\ UNCHANGED switchFrame

SwitchNext == SwitchCall

SwitchSpec == SwitchInit /\ [][SwitchNext]_vars

-----------------------------------------------------------------------------
(* Conversations (src/src/envelope.rs).  An envelope is here its docid,    *)
(* its flags and its thread_meta; GroupSpec groups every list of at most   *)
(* MaxGroup envelopes, ThreadSpec groups lists of read and unread          *)
(* envelopes and takes the representative of one of the conversations.     *)
(* The docid of an envelope is its position in the input.                  *)

MaxGroup == 5
MaxThread == 4

\* A thread start that looks at the level alone.
is_thread_start_level_alone(env) == env.thread_meta.level = 0

\* A thread start that looks at the root flag alone.
is_thread_start_root_alone(env) == env.thread_meta.root

\* let is_thread_start = env.thread_meta.root || env.thread_meta.level == 0
is_thread_start(env) == env.thread_meta.root \/ env.thread_meta.level = 0

\* The for loop of group_into_conversations from envelope i on.
RECURSIVE GroupLoop(_, _, _, _)
GroupLoop(envs, i, conversations, current) ==
    IF i > Len(envs) THEN [conversations |-> conversations, current |-> current]
    ELSE IF is_thread_start(envs[i]) /\ current # <<>>
      THEN GroupLoop(envs, i + 1, Append(conversations, [messages |-> current]),
                     <<envs[i]>>)
    ELSE GroupLoop(envs, i + 1, conversations, Append(current, envs[i]))

\* A grouping that forgets the group still open at the end of the input.
group_into_conversations_unflushed(envs) ==
    IF envs = <<>> THEN <<>>
    ELSE GroupLoop(envs, 1, <<>>, <<>>).conversations

\* A loop that closes a group at every thread start, the empty group
\* before the first envelope too.
RECURSIVE GroupLoopEager(_, _, _, _)
GroupLoopEager(envs, i, conversations, current) ==
    IF i > Len(envs) THEN [conversations |-> conversations, current |-> current]
    ELSE IF is_thread_start(envs[i])
      THEN GroupLoopEager(envs, i + 1, Append(conversations, [messages |-> current]),
                          <<envs[i]>>)
    ELSE GroupLoopEager(envs, i + 1, conversations, Append(current, envs[i]))

\* A grouping with that loop.
group_into_conversations_eager(envs) ==
    IF envs = <<>> THEN <<>>
    ELSE LET Flushed(g) ==
               IF g.current # <<>>
               THEN Append(g.conversations, [messages |-> g.current])
               ELSE g.conversations
         IN Then(GroupLoopEager(envs, 1, <<>>, <<>>), Flushed)

\* group_into_conversations
group_into_conversations(envs) ==
    IF envs = <<>> THEN <<>>
    ELSE LET Flushed(g) ==
               IF g.current # <<>>
               THEN Append(g.conversations, [messages |-> g.current])
               ELSE g.conversations
         IN Then(GroupLoop(envs, 1, <<>>, <<>>), Flushed)

\* Envelope::is_unread
is_unread(e) == \A i \in 1..Len(e.flags) : e.flags[i] # "Seen"

\* self.messages.iter().rev().find(..): the position found, 0 for none.
RECURSIVE rfind_unread(_, _)
rfind_unread(messages, i) ==
    IF i = 0 THEN 0
    ELSE IF is_unread(messages[i]) THEN i
    ELSE rfind_unread(messages, i - 1)

RECURSIVE find_unread(_, _)
find_unread(messages, i) ==
    IF i > Len(messages) THEN 0
    ELSE IF is_unread(messages[i]) THEN i
    ELSE find_unread(messages, i + 1)

\* A representative that scans from the front.
representative_from_front(conv) ==
    LET i == find_unread(conv.messages, 1)
    IN conv.messages[IF i > 0 THEN i ELSE Len(conv.messages)]

\* Conversation::representative
representative(conv) ==
    LET i == rfind_unread(conv.messages, Len(conv.messages))
    IN conv.messages[IF i > 0 THEN i ELSE Len(conv.messages)]

ThreadMetas == [level : {0, 1}, root : BOOLEAN]
GroupInputs ==
    UNION {[1..n -> ThreadMetas] : n \in 0..MaxGroup}

\* make_envelope of the tests: a reply has level 1 and is no root.
ThreadFlags == {<<>>, <<"Seen">>, <<"Flagged">>, <<"Unread", "Seen">>}
ThreadInputs ==
    UNION {[1..n -> [reply : BOOLEAN, flags : ThreadFlags]] : n \in 1..MaxThread}

EnvelopeAt(i, flags, meta) == [docid |-> i, flags |-> flags, thread_meta |-> meta]

GroupInit ==
    /\ pipe = <<>>
    /\ srv = <<>>
    /\ closed = FALSE
    /\ last = NoCall
    /\ idxOut = "none"
    /\ ReaderIdle
    /\ ProcessIdle
    /\ StatusIdle
    /\ AppIdle
    /\ \E metas \in GroupInputs :
          input = [i \in 1..Len(metas) |-> EnvelopeAt(i, <<>>, metas[i])]
    /\ output = <<>>

ThreadInit ==
    /\ pipe = <<>>
    /\ srv = <<>>
    /\ closed = FALSE
    /\ last = NoCall
    /\ idxOut = "none"
    /\ ReaderIdle
    /\ ProcessIdle
    /\ StatusIdle
    /\ AppIdle
    /\ \E t \in ThreadInputs :
          input = [i \in 1..Len(t) |->
                     EnvelopeAt(i, t[i].flags,
                                [level |-> IF t[i].reply THEN 1 ELSE 0,
                                 root |-> ~t[i].reply])]
    /\ output = <<>>

pureFrame == <<pipe, srv, closed, last, idxOut, readerVars, processVars, store,
               nextDocid, indexing, needs_reindex, active_account, envelopes,
               undo_stack, keyPending, ipcPending, jobs, shellPending, lastMove,
               shownVars>>

\* let convos = group_into_conversations(&envelopes)
Group ==
    /\ pc = "none"
    /\ output' = group_into_conversations(input)
    /\ pc' = "grouped"
    /\ UNCHANGED <<input, pureFrame>>

\* convos[k].representative()
Representative ==
    /\ pc = "grouped"
    /\ \E k \in 1..Len(output) :
          output' = [conversation |-> output[k],
                     representative |-> representative(output[k])]
    /\ pc' = "shown"
    /\ UNCHANGED <<input, pureFrame>>

GroupNext == Group

GroupSpec == GroupInit /\ [][GroupNext]_vars

ThreadNext == Group \/ Representative

ThreadSpec == ThreadInit /\ [][ThreadNext]_vars

-----------------------------------------------------------------------------
(* The plist accessors on lists as lexpr holds them: a plist is the list   *)
(* of its items, keywords and values alike, and the accessors walk it item *)
(* by item.  Kw is Value::Keyword; the other shapes are those above.       *)

MaxPairs == 2

Kw(s) == [t |-> "kw", s |-> s]
Null == [t |-> "null"]

\* plist.as_cons(): the items of a non-empty list.
as_cons(value) == IF value.t = "list" THEN Some(value.items) ELSE None

\* The loop the four accessors share, from item i on: the position of the
\* value it returns, 0 when it runs off the list.  Every item is tried as a
\* key; an item taken as a value is not tried again.
RECURSIVE ValuePosition(_, _, _)
ValuePosition(items, i, key) ==
    IF i > Len(items) THEN 0
    ELSE IF items[i].t = "kw" /\ items[i].s = key /\ i < Len(items) THEN i + 1
    ELSE ValuePosition(items, i + 1, key)

\* plist_get on a list value.
list_get(plist, key) ==
    LET c == as_cons(plist)
        p == IF c.some THEN ValuePosition(c.v, 1, key) ELSE 0
    IN IF p > 0 THEN Some(c.v[p]) ELSE None

\* plist_get_str on a list value.
list_get_str(plist, key) ==
    LET g == list_get(plist, key)
    IN IF g.some /\ g.v.t = "str" THEN Some(g.v.s) ELSE None

\* plist_get_u32 on a list value: as_u64, then `as u32`, which changes
\* nothing below 2^31, where the numbers of this model stay.
list_get_u32(plist, key) ==
    LET g == list_get(plist, key)
    IN IF g.some /\ g.v.t = "num" /\ g.v.n >= 0 THEN Some(g.v.n) ELSE None

\* plist_get_bool on a list value.
list_get_bool(plist, key) ==
    LET g == list_get(plist, key)
    IN IF ~g.some THEN None
       ELSE IF g.v.t = "sym" THEN Some(g.v.s = "t")
       ELSE Some(g.v.t # "nil")

\* is_error on a list value, with the text it returns.
list_is_error(value) ==
    IF list_get(value, "error").some
    THEN IF list_get_str(value, "message").some
           THEN list_get_str(value, "message")
         ELSE IF list_get_str(value, "error").some
           THEN list_get_str(value, "error")
         ELSE IF list_get_u32(value, "error").some
           THEN Some("error code " \o Decimal(list_get_u32(value, "error").v))
         ELSE Some("unknown error")
    ELSE None

\* A plist written as its pairs, in order.
Items(pairs) ==
    [i \in 1..(2 * Len(pairs)) |->
        IF i % 2 = 1 THEN Kw(pairs[(i + 1) \div 2].k) ELSE pairs[i \div 2].v]
PlistOf(pairs) == IF pairs = <<>> THEN Null ELSE Lst(Items(pairs))
PairsUpTo(keys, values, n) ==
    UNION {[1..m -> [k : keys, v : values]] : m \in 0..n}

pureInit ==
    /\ pipe = <<>>
    /\ srv = <<>>
    /\ closed = FALSE
    /\ last = NoCall
    /\ idxOut = "none"
    /\ ReaderIdle
    /\ ProcessIdle
    /\ StatusIdle
    /\ AppIdle
    /\ output = <<>>

(* AccessorSpec: every accessor on every plist of at most MaxPairs pairs.  *)

AccessorKeys == {"a", "b"}
AccessorValues == {Num(1), Num(2), Str("s"), Sym("t"), Nil, Kw("a"), Kw("b")}

AccessorInit ==
    /\ pureInit
    /\ input \in PairsUpTo(AccessorKeys, AccessorValues, MaxPairs)

AccessorsOf(plist, key) ==
    [key |-> key,
     get |-> list_get(plist, key),
     str |-> list_get_str(plist, key),
     u32 |-> list_get_u32(plist, key),
     bool |-> list_get_bool(plist, key)]

Access ==
    /\ pc = "none"
    /\ \E key \in AccessorKeys : output' = AccessorsOf(PlistOf(input), key)
    /\ pc' = "got"
    /\ UNCHANGED <<input, pureFrame>>

AccessorNext == Access

AccessorSpec == AccessorInit /\ [][AccessorNext]_vars

(* ErrorSpec: is_error on plists over :error, :message and another key.    *)

ErrorKeys == {"error", "message", "x"}
ErrorValues == {Num(2), Str("E1"), Str("readable"), Sym("t"), Kw("error")}

ErrorInit ==
    /\ pureInit
    /\ input \in PairsUpTo(ErrorKeys, ErrorValues, MaxPairs)

IsError ==
    /\ pc = "none"
    /\ output' = list_is_error(PlistOf(input))
    /\ pc' = "classified"
    /\ UNCHANGED <<input, pureFrame>>

ErrorNext == IsError

ErrorSpec == ErrorInit /\ [][ErrorNext]_vars

(* DecodeSpec: parse_find_response on frames whose :headers list holds at  *)
(* most MaxHeaders header plists of HeaderPool.                            *)

MaxHeaders == 2

\* Flag::from_symbol
FlagFromSymbol(s) ==
    CASE s = "seen" -> Some("Seen")
      [] s = "replied" -> Some("Replied")
      [] s = "flagged" -> Some("Flagged")
      [] s = "trashed" -> Some("Trashed")
      [] s = "draft" -> Some("Draft")
      [] s = "passed" -> Some("Passed")
      [] s = "list" -> Some("List")
      [] s = "unread" -> Some("Unread")
      [] OTHER -> None

\* parse_flags: the symbols of the list that name a flag, in order.
parse_flags(value) ==
    LET c == as_cons(value)
        known(v) == v.t = "sym" /\ FlagFromSymbol(v.s).some
        syms == IF c.some THEN SelectSeq(c.v, known) ELSE <<>>
    IN [i \in 1..Len(syms) |-> FlagFromSymbol(syms[i].s).v]

\* parse_thread_meta
parse_thread_meta(value) ==
    LET level == list_get_u32(value, "level")
        root == list_get_bool(value, "root")
        thread_subject == list_get_bool(value, "thread-subject")
    IN [level |-> IF level.some THEN level.v ELSE 0,
        root |-> IF root.some THEN root.v ELSE TRUE,
        thread_subject |-> IF thread_subject.some THEN thread_subject.v ELSE TRUE]

\* ThreadMeta::default()
DefaultThreadMeta == [level |-> 0, root |-> TRUE, thread_subject |-> TRUE]

\* u64 and i64 values are written in four 16-bit limbs, lowest first.
Limb == 65536
HalfLimb == 32768

U64Of(n) == <<n % Limb, n \div Limb, 0, 0>>
Big(limbs) == [t |-> "big", limbs |-> limbs]

\* Value::as_u64: a number taken as u64, None for anything else.
as_u64(value) ==
    CASE value.t = "num" /\ value.n >= 0 -> Some(U64Of(value.n))
      [] value.t = "big" -> Some(value.limbs)
      [] OTHER -> None

\* x + y on limb sequences of one length; the sum has one limb more.
RECURSIVE AddLimbs(_, _, _, _)
AddLimbs(x, y, i, carry) ==
    IF i > Len(x) THEN <<carry>>
    ELSE <<(x[i] + y[i] + carry) % Limb>>
         \o AddLimbs(x, y, i + 1, (x[i] + y[i] + carry) \div Limb)

\* x <= y on limb sequences of one length, from limb i down.
RECURSIVE LimbsLeq(_, _, _)
LimbsLeq(x, y, i) ==
    IF i = 0 THEN TRUE
    ELSE IF x[i] # y[i] THEN x[i] < y[i]
    ELSE LimbsLeq(x, y, i - 1)

\* high * 65536 + low in u64: the wrapped value and whether the
\* multiplication or the addition overflowed.
emacs_seconds_low_first(high, low) ==
    LET sum == AddLimbs(<<0, low[1], low[2], low[3]>>, high, 1, 0)
    IN [wrapped |-> SubSeq(sum, 1, 4), overflow |-> low[4] # 0 \/ sum[5] # 0]

emacs_seconds(high, low) ==
    LET sum == AddLimbs(<<0, high[1], high[2], high[3]>>, low, 1, 0)
    IN [wrapped |-> SubSeq(sum, 1, 4), overflow |-> high[4] # 0 \/ sum[5] # 0]

\* `as i64`: the same 64 bits read in two's complement, as sign and
\* magnitude.
as_i64(u) ==
    IF u[4] < HalfLimb THEN [neg |-> FALSE, mag |-> u]
    ELSE [neg |-> TRUE,
          mag |-> SubSeq(AddLimbs([i \in 1..4 |-> Limb - 1 - u[i]],
                                  <<1, 0, 0, 0>>, 1, 0), 1, 4)]

\* The seconds chrono's DateTime<Utc> holds: from the first second of the
\* year -262143 (-8334601315200) to the last of 262142 (8210266876799).
MaxTimestamp == <<27519, 39434, 1911, 0>>
MinTimestampMagnitude == <<25472, 36083, 1940, 0>>

\* Utc.timestamp_opt(seconds, 0).single()
timestamp_opt(seconds) ==
    IF LimbsLeq(seconds.mag, IF seconds.neg THEN MinTimestampMagnitude
                             ELSE MaxTimestamp, 4)
    THEN Some(seconds) ELSE None

Panic == [some |-> FALSE, panic |-> TRUE]

\* parse_emacs_time: (high low ...) is high * 65536 + low seconds.  With
\* overflow checks (a debug build) an overflow of the u64 arithmetic
\* panics, without them it wraps.
parse_emacs_time(value, overflow_checks) ==
    LET c == as_cons(value)
    IN IF c.some /\ Len(c.v) >= 2
       THEN IF as_u64(c.v[1]).some /\ as_u64(c.v[2]).some
            THEN LET s == emacs_seconds(as_u64(c.v[1]).v, as_u64(c.v[2]).v)
                 IN IF s.overflow /\ overflow_checks THEN Panic
                    ELSE timestamp_opt(as_i64(s.wrapped))
            ELSE None
       ELSE None

\* parse_envelope on a list value; the addresses and the path, which have
\* defaults like the subject, are left out.  A date that is absent or
\* malformed is the time of the call, "now"; the dates of HeaderPool are
\* small, so that the build's overflow checks make no difference.
list_parse_envelope(value) ==
    LET docid == list_get_u32(value, "docid")
        message_id == list_get_str(value, "message-id")
        subject == list_get_str(value, "subject")
        maildir == list_get_str(value, "maildir")
        date == list_get(value, "date")
        flags == list_get(value, "flags")
        meta == list_get(value, "meta")
    IN IF ~docid.some THEN Err("decode", "missing docid in envelope", NoText)
       ELSE Ok([docid |-> docid.v,
                message_id |-> IF message_id.some THEN message_id.v ELSE "",
                subject |-> IF subject.some THEN subject.v ELSE "(no subject)",
                maildir |-> IF maildir.some THEN maildir.v ELSE "",
                date |-> IF date.some /\ parse_emacs_time(date.v, FALSE).some
                           THEN parse_emacs_time(date.v, FALSE)
                           ELSE [some |-> TRUE, v |-> "now"],
                flags |-> IF flags.some THEN parse_flags(flags.v) ELSE <<>>,
                thread_meta |-> IF meta.some THEN parse_thread_meta(meta.v)
                                             ELSE DefaultThreadMeta])

\* The collect() of parse_find_response on list values.
RECURSIVE CollectEnvelopes(_, _, _)
CollectEnvelopes(items, i, acc) ==
    IF i > Len(items) THEN Ok(acc)
    ELSE LET e == list_parse_envelope(items[i])
         IN IF e.ok THEN CollectEnvelopes(items, i + 1, Append(acc, e.v)) ELSE e

\* parse_find_response on a list value.
list_parse_find_response(value) ==
    LET headers == list_get(value, "headers")
    IN IF headers.some /\ as_cons(headers.v).some
       THEN CollectEnvelopes(as_cons(headers.v).v, 1, <<>>)
       ELSE Ok(<<>>)

Pair(k, v) == [k |-> k, v |-> v]

\* Header plists, as pairs: complete, without fields, and with fields of
\* the wrong shape.
HeaderPool ==
    {<<Pair("docid", Num(5)), Pair("subject", Str("s")),
       Pair("flags", Lst(<<Sym("seen"), Sym("new")>>)),
       Pair("meta", Lst(<<Kw("level"), Num(1), Kw("root"), Nil>>)),
       Pair("date", Lst(<<Num(1), Num(2), Num(0)>>))>>,
     <<Pair("docid", Num(6))>>,
     <<Pair("docid", Num(7)), Pair("subject", Num(3)), Pair("message-id", Nil),
       Pair("maildir", Sym("t")), Pair("flags", Num(7)), Pair("meta", Str("x")),
       Pair("date", Lst(<<Num(1)>>))>>,
     <<Pair("priority", Kw("docid")), Pair("docid", Num(8))>>,
     <<Pair("subject", Str("s"))>>,
     <<Pair("docid", Str("9"))>>,
     <<Pair("docid", Num(-1))>>,
     <<>>}

\* The frames: a :headers list, :headers with nil or a number, no :headers.
DecodeInputs ==
    {[kind |-> "list", headers |-> h] : h \in SeqsUpTo(HeaderPool, MaxHeaders)}
    \cup {[kind |-> k, headers |-> <<>>] : k \in {"nil", "number", "absent"}}

FrameOf(in) ==
    CASE in.kind = "list" ->
           Lst(<<Kw("headers"),
                 IF in.headers = <<>> THEN Null
                 ELSE Lst([i \in 1..Len(in.headers) |-> PlistOf(in.headers[i])])>>)
      [] in.kind = "nil" -> Lst(<<Kw("headers"), Nil>>)
      [] in.kind = "number" -> Lst(<<Kw("headers"), Num(5)>>)
      [] OTHER -> Lst(<<Kw("found"), Num(2)>>)

DecodeInit ==
    /\ pureInit
    /\ input \in DecodeInputs

ParseFindResponse ==
    /\ pc = "none"
    /\ output' = list_parse_find_response(FrameOf(input))
    /\ pc' = "decoded"
    /\ UNCHANGED <<input, pureFrame>>

DecodeNext == ParseFindResponse

DecodeSpec == DecodeInit /\ [][DecodeNext]_vars

-----------------------------------------------------------------------------
(* TimeSpec: parse_emacs_time on every tuple of at most MaxTuple items     *)
(* whose first two are numbers up to u64::MAX or values that are no        *)
(* unsigned integer, in a build with and without overflow checks.          *)

MaxTuple == 3

\* 125278730 * 65536 + 27519 is the last second DateTime<Utc> holds.
TimeNumbers ==
    {Num(0), Num(1), Num(6999), Num(27028), Num(27519), Num(27520),
     Num(65535), Num(65536), Num(125278730), Num(125278731),
     Big(<<0, 0, 32768, 0>>), Big(<<65535, 65535, 65535, 0>>),
     Big(<<0, 0, 0, 1>>), Big(<<65535, 65535, 65535, 65535>>)}
TimeOthers == {Num(-1), Str("1"), Nil}
TimeExtras == {Num(0), Str("x")}

TimeInputs ==
    {Null, Num(5)}
    \cup {Lst(<<a>>) : a \in TimeNumbers \cup TimeOthers}
    \cup UNION {{Lst(<<a, b>> \o rest) : a, b \in TimeNumbers \cup TimeOthers,
                                       rest \in [1..n -> TimeExtras]} :
                n \in 0..(MaxTuple - 2)}

TimeInit ==
    /\ pureInit
    /\ input \in TimeInputs

ParseEmacsTime ==
    /\ pc = "none"
    /\ \E overflow_checks \in BOOLEAN :
          output' = parse_emacs_time(input, overflow_checks)
    /\ pc' = "decoded"
    /\ UNCHANGED <<input, pureFrame>>

TimeNext == ParseEmacsTime

TimeSpec == TimeInit /\ [][TimeNext]_vars

-----------------------------------------------------------------------------
(* EscapeSpec: escape_string on every string of at most MaxEscape          *)
(* characters, embedded as the query of find or as the maildir or the      *)
(* flags of move_msg.  A command is a sequence of characters; the fixed    *)
(* text around the embedded string is written in pieces that hold neither  *)
(* a quote nor a backslash.                                                *)

MaxEscape == 3

EscapeAlphabet == {"a", " ", "\\", "\""}
EscapeInputs == UNION {[1..n -> EscapeAlphabet] : n \in 0..MaxEscape}
EscapeUses == {"query", "maildir", "flags"}

\* The text before the opening quote and after the closing quote of the
\* embedded string: find_preview, and move_msg with one optional argument.
CommandHead(use) ==
    CASE use = "query" -> <<"(find :query ">>
      [] use = "maildir" -> <<"(move :docid 5 :maildir ">>
      [] OTHER -> <<"(move :docid 5 :flags ">>
CommandTail(use) ==
    IF use = "query" THEN <<" :sortfield :date :maxnum 500 :threads t :descending t)">>
    ELSE <<" :rename t)">>

\* format!("... \"{}\" ...", escape_string(s))
embed(use, chars) ==
    [head |-> CommandHead(use),
     literal |-> <<"\"">> \o escape_chars(chars) \o <<"\"">>,
     tail |-> CommandTail(use)]

EscapeInit ==
    /\ pureInit
    /\ input \in EscapeInputs

Escape ==
    /\ pc = "none"
    /\ \E use \in EscapeUses : output' = embed(use, input)
    /\ pc' = "escaped"
    /\ UNCHANGED <<input, pureFrame>>

EscapeNext == Escape

EscapeSpec == EscapeInit /\ [][EscapeNext]_vars

-----------------------------------------------------------------------------
(* KeySpec: the key mapper (src/src/keymap.rs).  A config section of at    *)
(* most MaxBindings custom bindings is loaded and at most MaxKeys keys are *)
(* pressed in one mode; a pending sequence may time out between two keys.  *)
(* A key string is the sequence of its space-separated parts, a part a     *)
(* prefix ("ctrl+", "shift+" or none) and a key name; each map of the      *)
(* section is given in the order in which the HashMap yields its entries.  *)
(* Of the hardcoded tables the rows for the keys of KeyEvents are kept.    *)

MaxBindings == 2
MaxKeys == 3

Part(prefix, name) == [prefix |-> prefix, name |-> name]
KeyCombo(code, modifiers) == [code |-> code, modifiers |-> modifiers]
Single(a) == [kind |-> "Single", first |-> a, second |-> a]
Sequence(a, b) == [kind |-> "Sequence", first |-> a, second |-> b]

\* str::to_lowercase on the key names of the model.
to_lowercase(name) == IF name = "G" THEN "g" ELSE name

\* parse_key_name, on a lowercased name.
parse_key_name(name) ==
    CASE name = "enter" -> Ok("Enter")
      [] name \in {"g", "s", "x"} -> Ok(name)
      [] OTHER -> Err("config", "unknown key", NoText)

\* parse_key_combo
parse_key_combo(part) ==
    LET named == parse_key_name(to_lowercase(part.name))
    IN CASE part.prefix = "ctrl+" ->
              IF named.ok THEN Ok(KeyCombo(named.v, "CONTROL")) ELSE named
         [] part.prefix = "shift+" ->
              IF named.ok THEN Ok(KeyCombo(named.v, "SHIFT")) ELSE named
         [] part.name \in {"g", "s", "x", "G"} ->
              Ok(KeyCombo(part.name, IF part.name = "G" THEN "SHIFT" ELSE "NONE"))
         [] OTHER ->
              IF named.ok THEN Ok(KeyCombo(named.v, "NONE")) ELSE named

\* parse_key_string
parse_key_string(parts) ==
    CASE Len(parts) = 1 ->
           LET a == parse_key_combo(parts[1])
           IN IF a.ok THEN Ok(Single(a.v)) ELSE a
      [] Len(parts) = 2 ->
           LET a == parse_key_combo(parts[1])
               b == parse_key_combo(parts[2])
           IN IF ~a.ok THEN a ELSE IF ~b.ok THEN b ELSE Ok(Sequence(a.v, b.v))
      [] OTHER -> Err("config", "at most 2 keys in a sequence", NoText)

\* resolve_binding_value on BindingValue::Short, with parse_action_name.
resolve_binding_value(value) ==
    CASE value \in {"/Sent", "/Work"} -> Ok([kind |-> "Folder", arg |-> value])
      [] value = "archive" ->
           Ok([kind |-> "Builtin", arg |-> "MoveToFolder(archive)"])
      [] OTHER -> Err("config", "unknown action", NoText)

\* KeyMapper::parse_binding
parse_binding(key_str, value, modes) ==
    LET trigger == parse_key_string(key_str)
        action == resolve_binding_value(value)
    IN IF ~trigger.ok THEN trigger
       ELSE IF ~action.ok THEN action
       ELSE Ok([trigger |-> trigger.v, action |-> action.v, modes |-> modes])

\* KeyMapper::new()
NewKeyMapper == [pending |-> None, custom_bindings |-> <<>>, custom_prefixes |-> {}]

\* The inner loop of load_bindings over one map, from entry i on.
RECURSIVE load_map(_, _, _, _)
load_map(mapper, map, modes, i) ==
    IF i > Len(map) THEN mapper
    ELSE LET binding == parse_binding(map[i].key, map[i].value, modes)
         IN load_map(
              IF ~binding.ok THEN mapper
              ELSE [mapper EXCEPT
                      !.custom_prefixes =
                          IF binding.v.trigger.kind = "Sequence"
                          THEN @ \cup {binding.v.trigger.first} ELSE @,
                      !.custom_bindings = Append(@, binding.v)],
              map, modes, i + 1)

\* KeyMapper::load_bindings
load_bindings(mapper, section) ==
    LET cleared == [mapper EXCEPT !.custom_bindings = <<>>, !.custom_prefixes = {}]
        global == load_map(cleared, section.global, {"Normal", "ThreadView"}, 1)
        normal == load_map(global, section.normal, {"Normal"}, 1)
    IN load_map(normal, section.thread, {"ThreadView"}, 1)

\* KeyMapper::lookup_custom, from binding i on.
RECURSIVE lookup_custom(_, _, _, _)
lookup_custom(mapper, trigger, mode, i) ==
    IF i > Len(mapper.custom_bindings) THEN None
    ELSE LET binding == mapper.custom_bindings[i]
         IN IF mode \in binding.modes /\ binding.trigger = trigger
            THEN Some(IF binding.action.kind = "Folder"
                      THEN "NavigateFolder(" \o binding.action.arg \o ")"
                      ELSE binding.action.arg)
            ELSE lookup_custom(mapper, trigger, mode, i + 1)

Returned(mapper, action) == [mapper |-> mapper, action |-> action]

\* KeyMapper::handle_sequence
handle_sequence(mapper, first, key) ==
    Returned(mapper, IF first = "g" /\ key.code = "g" THEN "JumpTop" ELSE "Noop")

\* KeyMapper::handle_normal
handle_normal(mapper, key) ==
    IF mapper.pending.some
    THEN handle_sequence([mapper EXCEPT !.pending = None], mapper.pending.v, key)
    ELSE CASE key = KeyCombo("g", "NONE") ->
                Returned([mapper EXCEPT !.pending = Some("g")], "Noop")
           [] key = KeyCombo("G", "SHIFT") -> Returned(mapper, "JumpBottom")
           [] key = KeyCombo("s", "NONE") -> Returned(mapper, "ToggleStar")
           [] key = KeyCombo("x", "NONE") -> Returned(mapper, "ToggleSelect")
           [] OTHER -> Returned(mapper, "Noop")

\* KeyMapper::handle_thread
handle_thread(mapper, key) ==
    Returned(mapper, IF key = KeyCombo("s", "NONE") THEN "ToggleStar" ELSE "Noop")

\* KeyMapper::handle_input
handle_input(mapper, key) == Returned(mapper, "InputChar(" \o key.code \o ")")

\* KeyMapper::handle: the pending first key is kept as its code alone and
\* looked up with no modifiers.
handle(mapper, key, mode) ==
    IF mode = "Search" THEN handle_input(mapper, key)
    ELSE IF mapper.pending.some
    THEN LET taken == [mapper EXCEPT !.pending = None]
             trigger == Sequence(KeyCombo(mapper.pending.v, "NONE"), key)
             custom == lookup_custom(taken, trigger, mode, 1)
         IN IF custom.some THEN Returned(taken, custom.v)
            ELSE handle_sequence(taken, mapper.pending.v, key)
    ELSE LET custom == lookup_custom(mapper, Single(key), mode, 1)
         IN IF custom.some THEN Returned(mapper, custom.v)
            ELSE IF key \in mapper.custom_prefixes
            THEN Returned([mapper EXCEPT !.pending = Some(key.code)], "Noop")
            ELSE IF mode = "Normal" THEN handle_normal(mapper, key)
            ELSE handle_thread(mapper, key)

\* KeyMapper::cancel_pending
cancel_pending(mapper) == [mapper EXCEPT !.pending = None]

KeyEvents == {KeyCombo("g", "NONE"), KeyCombo("s", "NONE"), KeyCombo("x", "NONE"),
              KeyCombo("x", "CONTROL"), KeyCombo("G", "SHIFT")}
KeyModes == {"Normal", "ThreadView", "Search"}

\* The entries a config may hold, each with the map it is written in.
Entry(scope, key, value) == [scope |-> scope, key |-> key, value |-> value]
EntryPool ==
    {Entry("global", <<Part("", "g"), Part("", "s")>>, "/Sent"),
     Entry("global", <<Part("ctrl+", "x"), Part("", "s")>>, "/Sent"),
     Entry("normal", <<Part("", "G"), Part("", "s")>>, "archive"),
     Entry("thread", <<Part("", "g"), Part("", "s")>>, "/Work"),
     Entry("normal", <<Part("", "x")>>, "archive"),
     Entry("global", <<Part("", "g")>>, "archive"),
     Entry("global", <<Part("", "g"), Part("", "s"), Part("", "s")>>, "/Sent"),
     Entry("normal", <<Part("ctrl+", "x"), Part("", "s")>>, "bogus")}

\* The sections of at most MaxBindings entries, every order of every map.
EntryLists ==
    {l \in UNION {[1..n -> EntryPool] : n \in 0..MaxBindings} :
        \A i, j \in 1..Len(l) : i # j => l[i] # l[j]}
MapOf(l, scope) ==
    LET in_scope(e) == e.scope = scope
        es == SelectSeq(l, in_scope)
    IN [i \in 1..Len(es) |-> [key |-> es[i].key, value |-> es[i].value]]
Sections ==
    {[global |-> MapOf(l, "global"), normal |-> MapOf(l, "normal"),
      thread |-> MapOf(l, "thread")] : l \in EntryLists}

NoKey == KeyCombo("", "NONE")

KeyInit ==
    /\ pureInit
    /\ input \in [section : Sections, mode : KeyModes]

\* app.keymap.load_bindings(&config.bindings)
LoadBindings ==
    /\ pc = "none"
    /\ output' = [mapper |-> load_bindings(NewKeyMapper, input.section),
                  key |-> NoKey, was_pending |-> FALSE, action |-> "Noop",
                  count |-> 0]
    /\ pc' = "loaded"
    /\ UNCHANGED <<input, pureFrame>>

\* let action = app.keymap.handle(key, &app.mode)
Handle ==
    /\ pc = "loaded"
    /\ output.count < MaxKeys
    /\ \E key \in KeyEvents :
          LET r == handle(output.mapper, key, input.mode)
          IN output' = [mapper |-> r.mapper, key |-> key,
                        was_pending |-> output.mapper.pending.some,
                        action |-> r.action, count |-> output.count + 1]
    /\ UNCHANGED <<pc, input, pureFrame>>

\* The sequence timeout of run: app.keymap.cancel_pending()
CancelPending ==
    /\ pc = "loaded"
    /\ output.mapper.pending.some
    /\ output' = [output EXCEPT !.mapper = cancel_pending(@)]
    /\ UNCHANGED <<pc, input, pureFrame>>

KeyNext == LoadBindings \/ Handle \/ CancelPending

KeySpec == KeyInit /\ [][KeyNext]_vars

-----------------------------------------------------------------------------
(* The byte layer: mu_sexp::read_frame and FrameReader::next_frame.  A     *)
(* byte is a number in 0..255 and a buffer a sequence of bytes.  The       *)
(* framing is \xfe <hex length> \xff <payload>.                            *)

xFE == 254
xFF == 255

MaxPayload == 3
MaxField == 2

Take(b, n) == IF n <= 0 THEN <<>> ELSE IF n >= Len(b) THEN b ELSE SubSeq(b, 1, n)

\* iter().position(): the first index at or after `from` that holds `byte`,
\* counted from 1; 0 when there is none.
Position(b, from, byte) ==
    LET hits == {i \in from..Len(b) : b[i] = byte}
    IN IF hits = {} THEN 0 ELSE CHOOSE i \in hits : \A j \in hits : i <= j

RECURSIVE Utf8From(_, _)
\* std::str::from_utf8 succeeds: one-byte characters and the two-byte
\* characters (lead C2..DF, continuation 80..BF).  Longer characters begin
\* with E0..F4, bytes the buffers of this model do not hold.
Utf8From(b, i) ==
    IF i > Len(b) THEN TRUE
    ELSE IF b[i] < 128 THEN Utf8From(b, i + 1)
    ELSE IF b[i] >= 194 /\ b[i] <= 223
      THEN i < Len(b) /\ b[i + 1] >= 128 /\ b[i + 1] <= 191 /\ Utf8From(b, i + 2)
    ELSE FALSE

from_utf8(b) == Utf8From(b, 1)

\* char::to_digit: the value of a digit character in the radix, or -1.
to_digit(c, radix) ==
    LET v == IF c >= 48 /\ c <= 57 THEN c - 48          \* 0-9
             ELSE IF c >= 97 /\ c <= 122 THEN c - 87    \* a-z
             ELSE IF c >= 65 /\ c <= 90 THEN c - 55     \* A-Z
             ELSE -1
    IN IF v >= 0 /\ v < radix THEN v ELSE -1

RECURSIVE DigitsValue(_, _, _, _)
DigitsValue(s, i, radix, acc) ==
    IF i > Len(s) THEN acc
    ELSE DigitsValue(s, i + 1, radix, acc * radix + to_digit(s[i], radix))

\* A length parser that reads the field as a decimal number.
from_str_radix_decimal(s, radix) ==
    LET digits == IF s # <<>> /\ s[1] = 43 THEN Tail(s) ELSE s
    IN IF digits = <<>> THEN None
       ELSE IF \E i \in 1..Len(digits) : to_digit(digits[i], 10) < 0 THEN None
       ELSE Some(DigitsValue(digits, 1, 10, 0))

\* usize::from_str_radix: an optional + sign, then one or more digits of
\* the radix.  The fields of this model have at most MaxField + 1 digits,
\* so the value stays far below usize::MAX and the overflow error of the
\* conversion cannot arise.
from_str_radix(s, radix) ==
    LET digits == IF s # <<>> /\ s[1] = 43 THEN Tail(s) ELSE s
    IN IF digits = <<>> THEN None
       ELSE IF \E i \in 1..Len(digits) : to_digit(digits[i], radix) < 0 THEN None
       ELSE Some(DigitsValue(digits, 1, radix, 0))

\* lexpr's reader, for the characters ( ) space, digits and symbol
\* characters.  Every parser returns [ok, v, next]: the value and the index
\* after it.
PErr(what) == [ok |-> FALSE, v |-> what, next |-> 0]
IsDigit(c) == c >= 48 /\ c <= 57
IsDelimiter(c) == c \in {40, 41, 32}

RECURSIVE SkipWs(_, _)
SkipWs(s, i) == IF i <= Len(s) /\ s[i] = 32 THEN SkipWs(s, i + 1) ELSE i

RECURSIVE DigitsEnd(_, _)
DigitsEnd(s, i) == IF i <= Len(s) /\ IsDigit(s[i]) THEN DigitsEnd(s, i + 1) ELSE i

RECURSIVE SymbolEnd(_, _)
SymbolEnd(s, i) ==
    IF i <= Len(s) /\ ~IsDelimiter(s[i]) THEN SymbolEnd(s, i + 1) ELSE i

RECURSIVE parse_value(_, _)
RECURSIVE parse_list(_, _, _)

parse_value(s, i) ==
    LET j == SkipWs(s, i)
    IN IF j > Len(s) THEN PErr("eof")
       ELSE IF s[j] = 40 THEN parse_list(s, j + 1, <<>>)
       ELSE IF s[j] = 41 THEN PErr("unexpected )")
       ELSE IF IsDigit(s[j])
         THEN [ok |-> TRUE,
               v |-> Num(DigitsValue(SubSeq(s, j, DigitsEnd(s, j) - 1), 1, 10, 0)),
               next |-> DigitsEnd(s, j)]
       ELSE [ok |-> TRUE,
             v |-> Sym(SubSeq(s, j, SymbolEnd(s, j) - 1)),
             next |-> SymbolEnd(s, j)]

parse_list(s, i, acc) ==
    LET j == SkipWs(s, i)
        Item(r) == IF r.ok THEN parse_list(s, r.next, Append(acc, r.v)) ELSE r
    IN IF j > Len(s) THEN PErr("eof in list")
       ELSE IF s[j] = 41
         THEN [ok |-> TRUE, v |-> IF acc = <<>> THEN Null ELSE Lst(acc), next |-> j + 1]
       ELSE Then(parse_value(s, j), Item)

\* parse_sexp: exactly one value, then nothing but white space.
parse_sexp(s) ==
    LET Whole(r) ==
          IF ~r.ok THEN Err("parse", "failed to parse sexp", NoText)
          ELSE IF SkipWs(s, r.next) <= Len(s)
            THEN Err("parse", "failed to parse sexp", NoText)
          ELSE Ok(r.v)
    IN Then(parse_value(s, 1), Whole)

\* A frame_data that parses whatever part of the payload has arrived.
frame_data_eager(b, sep, length) ==
    LET data_end == IF sep + length <= Len(b) THEN sep + length ELSE Len(b)
        sexp_bytes == SubSeq(b, sep + 1, data_end)
    IN IF ~from_utf8(sexp_bytes)
         THEN Err("parse", "invalid utf-8 in sexp data", NoText)
       ELSE LET Framed(value) ==
                  IF value.ok
                    THEN Ok(Some([value |-> value.v, consumed |-> data_end]))
                  ELSE value
            IN Then(parse_sexp(sexp_bytes), Framed)

\* read_frame once the length is known.  `sep` is the index of the \xff
\* marker counted from 1, which is data_start counted from 0 as the source
\* counts, so data_end is sep + length and the payload is b[sep+1..data_end]
\* counted from 1.
frame_data(b, sep, length) ==
    LET data_end == sep + length
        sexp_bytes == SubSeq(b, sep + 1, data_end)
    IN IF Len(b) < data_end THEN Ok(None)
       ELSE IF ~from_utf8(sexp_bytes)
         THEN Err("parse", "invalid utf-8 in sexp data", NoText)
       ELSE LET Framed(value) ==
                  IF value.ok
                    THEN Ok(Some([value |-> value.v, consumed |-> data_end]))
                  ELSE value
            IN Then(parse_sexp(sexp_bytes), Framed)

\* mu_sexp::read_frame: Ok(None), Ok(Some((value, consumed))) or an error.
read_frame(b) ==
    LET start == Position(b, 1, xFE)
        sep == IF start = 0 THEN 0 ELSE Position(b, start + 1, xFF)
        hex_str == SubSeq(b, start + 1, sep - 1)
        length == from_str_radix(hex_str, 16)
    IN IF start = 0 THEN Ok(None)
       ELSE IF sep = 0 THEN Ok(None)
       ELSE IF ~from_utf8(hex_str)
         THEN Err("parse", "invalid utf-8 in frame length", NoText)
       ELSE IF ~length.some
         THEN Err("parse", "invalid hex length in frame", NoText)
       ELSE frame_data(b, sep, length.v)

\* A drain that starts at the frame marker and leaves what precedes it.
drain_from_marker(b, consumed) ==
    LET start == Position(b, 1, xFE)
    IN Take(b, start - 1) \o Drop(b, consumed)

\* A drain that empties the buffer.
drain_all(b, consumed) == <<>>

\* Vec::drain(..consumed)
drain(b, consumed) == Drop(b, consumed)

RECURSIVE HexDigits(_)
\* format!("{:x}", n) for n > 0, most significant digit first.
HexDigits(n) ==
    IF n = 0 THEN <<>>
    ELSE Append(HexDigits(n \div 16),
                IF (n % 16) < 10 THEN 48 + (n % 16) ELSE 87 + (n % 16))

\* The lowercase hexadecimal text of n.
Hex(n) == IF n = 0 THEN <<48>> ELSE HexDigits(n)

\* The frame the server writes for the payload P.
Encode(P) == <<xFE>> \o Hex(Len(P)) \o <<xFF>> \o P

\* ( ) t and the two bytes of a two-byte character.
PayloadBytes == {40, 41, 116, 195, 169}
\* Longer payloads, whose lengths are a, 10 and 1a in hexadecimal.
LongPayloads ==
    {<<40, 116, 32, 116, 32, 116, 32, 116, 116, 41>>,
     <<40, 116, 32, 116, 32, 116, 32, 116, 32, 116, 32, 116, 32, 116, 116, 41>>,
     <<40, 116, 32, 40, 116, 32, 116, 41, 32, 195, 169, 32, 116, 32, 116, 32,
       40, 41, 32, 116, 32, 116, 32, 116, 116, 41>>}
\* The payload strings: every valid UTF-8 text of at most MaxPayload bytes.
Payloads ==
    {P \in SeqsUpTo(PayloadBytes, MaxPayload) : from_utf8(P)} \cup LongPayloads

\* What the server may write before a frame: nothing, a comment character,
\* a stray separator.
Noises == {<<>>, <<59>>, <<xFF, 10>>}
\* What follows a frame in the stream: nothing or the start of the next one.
Tails == {<<>>, <<xFE>>, <<xFE, 49, xFF, 116>>}

\* Bytes of a length field: 1 A + g, a continuation byte, a second marker.
FieldBytes == {49, 65, 43, 103, 128, xFE}
\* Data after a length field of any kind.
Datas == {<<>>, <<116>>, <<128>>, <<195>>, <<116, 116>>,
          <<40, 116, 32, 116, 32, 116, 32, 116, 116, 41>>}

\* The byte streams a server writes before it closes its stdout.
FrameStreams ==
    {N \o Encode(P) \o T : N \in Noises, P \in Payloads, T \in Tails}
    \cup {<<xFE>> \o L \o <<xFF>> \o D : L \in SeqsUpTo(FieldBytes, MaxField), D \in Datas}

FrameInit ==
    /\ stdout \in FrameStreams
    /\ buf = <<>>
    /\ frame = NoFrame
    /\ ProcessIdle
    /\ PureIdle
    /\ StatusIdle
    /\ pipe = <<>>
    /\ srv = <<>>
    /\ closed = TRUE
    /\ last = NoCall
    /\ idxOut = "none"
    /\ AppIdle

\* One iteration of the loop of FrameReader::next_frame: a frame is
\* returned and drained, or a parse error is returned, or one read() adds
\* bytes to the buffer; at the end of the stream the read gives 0 bytes.
NextFrameStep ==
    /\ frame.ret \notin {"error", "eof"}
    /\ LET r == read_frame(buf)
       IN IF ~r.ok
            THEN /\ frame' = [before |-> buf, res |-> r, ret |-> "error"]
                 /\ UNCHANGED <<buf, stdout>>
          ELSE IF r.v.some
            THEN /\ frame' = [before |-> buf, res |-> r, ret |-> "value"]
                 /\ buf' = drain(buf, r.v.v.consumed)
                 /\ UNCHANGED stdout
          ELSE IF stdout = <<>>
            THEN /\ frame' = [before |-> buf, res |-> r, ret |-> "eof"]
                 /\ UNCHANGED <<buf, stdout>>
          ELSE \E n \in 1..Len(stdout) :
                 /\ frame' = [before |-> buf, res |-> r, ret |-> "read"]
                 /\ buf' = buf \o Take(stdout, n)
                 /\ stdout' = Drop(stdout, n)
    /\ UNCHANGED <<pipe, srv, closed, last, idxOut, processVars, pureVars, shownVars>>
    /\ UNCHANGED appVars

FrameNext == NextFrameStep

FrameSpec == FrameInit /\ [][FrameNext]_vars

-----------------------------------------------------------------------------
(* ChunkSpec: a reader on a stream of several frames.  `input` is the      *)
(* whole stream the server writes, `stdout` the part not yet read, `output`*)
(* the values the calls of next_frame have returned, in order.  `frame`    *)
(* follows the current call: `entry` is the session buffer when the call   *)
(* began, `taken` the bytes its reads have added, `again` the number of    *)
(* calls in a row that failed on the same buffer.                          *)

MaxFrames == 2
MaxAgain == 2
\* The size of tmp, the array a read() fills, scaled down from 8192.
MaxChunk == 6
AtMost(a, b) == IF a <= b THEN a ELSE b

\* Payloads of frames that parse: t, and one of 16 bytes whose length field
\* has two digits.
ChunkPayloads ==
    {<<116>>,
     <<40, 116, 32, 116, 32, 116, 32, 116, 32, 116, 32, 116, 32, 116, 116, 41>>}
\* The payload of a complete frame that does not parse: an open list.
BadPayloads == {<<40>>}
\* A frame whose length field is not a number.
BadLength == <<xFE, 103, xFF, 116>>
ChunkFrames == {Encode(P) : P \in ChunkPayloads \cup BadPayloads} \cup {BadLength}

RECURSIVE Concat(_)
Concat(ss) == IF ss = <<>> THEN <<>> ELSE Head(ss) \o Concat(Tail(ss))

ChunkStreams == {Concat(fs) : fs \in SeqsUpTo(ChunkFrames, MaxFrames)}

NoChunkCall == [before |-> <<>>, res |-> [ok |-> TRUE, v |-> None], ret |-> "none",
                entry |-> <<>>, taken |-> <<>>, again |-> 0]

\* A reader that drops the buffer when the frame in it does not parse.
next_frame_try_discard(b) ==
    LET Tried(r) ==
          IF ~r.ok THEN [ret |-> "error", res |-> r, buf |-> <<>>]
          ELSE IF r.v.some
            THEN [ret |-> "value", res |-> r, buf |-> drain(b, r.v.v.consumed)]
          ELSE [ret |-> "more", res |-> r, buf |-> b]
    IN Then(read_frame(b), Tried)

\* The head of the loop of next_frame: `read_frame(&self.buf)?`, then the
\* drain and the return of the value; "more" when the loop goes on to read.
next_frame_try(b) ==
    LET Tried(r) ==
          IF ~r.ok THEN [ret |-> "error", res |-> r, buf |-> b]
          ELSE IF r.v.some
            THEN [ret |-> "value", res |-> r, buf |-> drain(b, r.v.v.consumed)]
          ELSE [ret |-> "more", res |-> r, buf |-> b]
    IN Then(read_frame(b), Tried)

\* A reader whose bytes live in the future of the call: dropping the
\* future takes the session buffer back to what the call began with.
abandon_local(b, call) == call.entry

\* The future of next_frame is dropped while it waits in read().  The
\* buffer is a field of the FrameReader and the read is cancel safe, so
\* the bytes the call has added stay where they are; the only local of
\* the future, tmp, holds nothing between reads.
abandon(b, call) == b

ChunkInit ==
    /\ input \in ChunkStreams
    /\ output = <<>>
    /\ stdout = input
    /\ buf = <<>>
    /\ frame = NoChunkCall
    /\ ProcessIdle
    /\ StatusIdle
    /\ pipe = <<>>
    /\ srv = <<>>
    /\ closed = TRUE
    /\ last = NoCall
    /\ idxOut = "none"
    /\ AppIdle

chunkFrame == <<input, pipe, srv, closed, last, idxOut, processVars, shownVars>>

\* The call a step belongs to: the pending one, or a new one that begins
\* with the buffer as it is.
CallEntry == IF frame.ret = "pending" THEN frame.entry ELSE buf
CallTaken == IF frame.ret = "pending" THEN frame.taken ELSE <<>>

\* One iteration of the loop of FrameReader::next_frame, in a new call or
\* the pending one: the call returns a value or an error, or fails at the
\* end of the stream, or one read() adds a chunk of any size and the loop
\* goes round.  A chunk is at most the size of tmp.
ChunkNextFrame ==
    /\ frame.ret # "eof"
    /\ frame.again < MaxAgain
    /\ LET t == next_frame_try(buf)
           call == [before |-> buf, res |-> t.res, entry |-> CallEntry,
                    taken |-> CallTaken]
       IN IF t.ret = "error"
            THEN /\ frame' = [ret |-> "error", again |-> frame.again + 1] @@ call
                 /\ buf' = t.buf
                 /\ UNCHANGED <<stdout, output>>
          ELSE IF t.ret = "value"
            THEN /\ frame' = [ret |-> "value", again |-> 0] @@ call
                 /\ buf' = t.buf
                 /\ output' = Append(output, t.res.v.v.value)
                 /\ UNCHANGED stdout
          ELSE IF stdout = <<>>
            THEN /\ frame' = [ret |-> "eof", again |-> 0] @@ call
                 /\ UNCHANGED <<buf, stdout, output>>
          ELSE \E n \in 1..AtMost(Len(stdout), MaxChunk) :
                 /\ frame' = [ret |-> "pending", again |-> 0,
                              before |-> buf, res |-> t.res, entry |-> CallEntry,
                              taken |-> CallTaken \o Take(stdout, n)]
                 /\ buf' = buf \o Take(stdout, n)
                 /\ stdout' = Drop(stdout, n)
                 /\ UNCHANGED output
    /\ UNCHANGED chunkFrame
    /\ UNCHANGED appVars

\* tokio::select! drops the future of a call that waits in read() because
\* another arm became ready.
ChunkAbandon ==
    /\ frame.ret \notin {"eof", "abandoned"}
    /\ next_frame_try(buf).ret = "more"
    /\ frame' = [ret |-> "abandoned", again |-> 0, before |-> buf,
                 res |-> next_frame_try(buf).res, entry |-> CallEntry,
                 taken |-> CallTaken]
    /\ buf' = abandon(buf, [entry |-> CallEntry, taken |-> CallTaken])
    /\ UNCHANGED <<stdout, output>>
    /\ UNCHANGED chunkFrame
    /\ UNCHANGED appVars

ChunkNext == ChunkNextFrame \/ ChunkAbandon

ChunkSpec == ChunkInit /\ [][ChunkNext]_vars

-----------------------------------------------------------------------------
(* What the claims say of a frame, written on the raw plist.               *)

EraseFrame(f) == f["erase"] = Sym("t")
ErrorFrame(f) == f["error"].t # "abs"
FoundFrame(f) == f["found"].t = "num"
\* The text a caller is to see for an error frame.
TextOf(f) ==
    IF f["message"].t = "str" THEN [kind |-> "text", s |-> f["message"].s]
    ELSE IF f["error"].t = "str" THEN [kind |-> "text", s |-> f["error"].s]
    ELSE IF f["error"].t = "num" THEN [kind |-> "code", n |-> f["error"].n]
    ELSE [kind |-> "unknown"]
\* The envelope a well-formed header stands for.
EnvelopeOf(h) ==
    [docid |-> h["docid"].n, message_id |-> h["message-id"].s,
     maildir |-> h["maildir"].s, flags |-> h["flags"].items]
RECURSIVE Concatenated(_)
\* The envelopes of the header batches of `frames`, batch after batch.
Concatenated(frames) ==
    IF frames = <<>> THEN <<>>
    ELSE LET f == Head(frames)
             own == IF f["headers"].t = "list" /\ ~EraseFrame(f)
                      THEN [i \in 1..Len(f["headers"].items) |->
                                EnvelopeOf(f["headers"].items[i])]
                      ELSE <<>>
         IN own \o Concatenated(Tail(frames))

ExampleStream == <<FErase, FHeaders(BatchA), FHeaders(BatchB), FFound(3)>>

\* C1: a find that returns envelopes returns the header batches it read
\* before the first :found marker, concatenated in the order of the frames,
\* nothing dropped, doubled or moved; [erase, A, B, found(3)] gives the two
\* envelopes of A and then the one of B.
C1_FindConcatenatesBatches ==
    (last.op = "find" /\ last.res.ok) =>
        LET rd == Wire(last.read)
            n == Len(rd)
        IN /\ n >= 1
           /\ FoundFrame(rd[n])
           /\ \A i \in 1..(n - 1) : EraseFrame(rd[i]) \/ ~FoundFrame(rd[i])
           /\ last.res.v.envelopes = Concatenated(SubSeq(rd, 1, n - 1))
           /\ (rd = ExampleStream =>
                 /\ Len(last.res.v.envelopes) = 3
                 /\ [i \in 1..3 |-> last.res.v.envelopes[i].docid] = <<11, 12, 13>>)

C1_Witness ==
    /\ last.op = "find"
    /\ Wire(last.read) = ExampleStream
    /\ last.res.ok

\* C2: in the event loop no find, move or ping is sent on a session while
\* frames of an (index) command are still unread on it, that is, between a
\* start_index and the poll that reports done or error.
C2_OneOperationOutstanding ==
    (last.op \in {"ping", "find", "find_preview", "move"}) =>
        \A i \in 1..Len(last.pre) : last.pre[i].op # "index"

\* C3: whenever the loop waits in its select! with indexing set, and so
\* invokes poll_index_frame, an (index) command was sent on the session it
\* polls.
C3_PollOnlyAfterIndexSent ==
    (pc = "select" /\ indexing) => idxOut # "none"

\* C4: once start_index has succeeded on a session, indexing eventually
\* becomes false (or the session is given up for another account), under
\* fair scheduling of the loop, the poll arm and the server.
C4_IndexingEventuallyEnds ==
    (indexing /\ idxOut = "sent" /\ active_account = 0)
        ~> (~indexing \/ active_account # 0)

\* C5: while indexing is in flight and poll_index_frame has nothing to
\* return, the poll arm does not fire, the timeout arm can, and every
\* pending key, IPC command and job result can be taken by its arm.
C5_PollDoesNotStarveArms ==
    (pc = "select" /\ indexing /\ ~PollReady(Session)) =>
        /\ ~CanFire("index")
        /\ CanFire("timeout")
        /\ keyPending > 0 => CanFire("key")
        /\ ipcPending > 0 => CanFire("ipc")
        /\ shellPending > 0 => CanFire("shell")

\* A SyncMail key was handled, and its job started, while the index response
\* was outstanding with none of its frames written yet.
C5_Witness ==
    /\ indexing
    /\ idxOut = "sent"
    /\ pipe = <<>>
    /\ Wire(srv) = <<FOther, FInfo>>
    /\ jobs > 0

\* C6: when a find, find_preview, move or ping that was sent on a session
\* with nothing unread returns, nothing is left unread on the session.
C6_ResponseReadToCompletion ==
    (last.op \in {"ping", "find", "find_preview", "move"} /\ last.pre = <<>>) =>
        pipe \o srv = <<>>

\* C7: the docid of every move command is a docid the server holds for the
\* message when the command arrives, that is, the latest one it returned.
C7_MoveUsesLatestDocid ==
    lastMove.called => lastMove.arg \in lastMove.live

\* C8: poll_index_frame reads one frame and classifies it: :erase gives
\* not-done, else :error fails, else :index or :info gives done, and every
\* other frame (an :update among them) gives not-done.
C8_PollClassifiesOneFrame ==
    (last.op = "poll" /\ last.pre # <<>>) =>
        /\ Len(last.read) = 1
        /\ LET f == last.read[1].f
           IN IF EraseFrame(f) THEN last.res = Ok([done |-> FALSE])
              ELSE IF ErrorFrame(f)
                THEN last.res = Err("frame", "mu index error", TextOf(f))
              ELSE IF f["index"].t # "abs" \/ f["info"].t # "abs"
                THEN last.res = Ok([done |-> TRUE])
              ELSE last.res = Ok([done |-> FALSE])

C8_Witness ==
    /\ last.op = "poll"
    /\ Len(last.read) = 1
    /\ last.read[1].f = FInfo
    /\ last.res = Ok([done |-> TRUE])
    /\ pipe # <<>>

\* C9: ping, find and move skip every :erase frame and fail on the first
\* other frame that carries :error, with that frame's text; the failing
\* call reads nothing after it.
C9_SkipEraseFailOnError ==
    (last.op \in {"ping", "find", "move"}) =>
        LET rd == Wire(last.read)
            n == Len(rd)
        IN /\ \A i \in 1..n :
                (ErrorFrame(rd[i]) /\ ~EraseFrame(rd[i])) =>
                    /\ i = n
                    /\ last.res = Err("frame",
                                      IF last.op = "find" THEN "mu find error"
                                                          ELSE "mu server error",
                                      TextOf(rd[i]))
           /\ \A i \in 1..n :
                EraseFrame(rd[i]) =>
                    \/ i < n
                    \/ (~last.res.ok /\ last.res.kind = "blocked")
           /\ (~last.res.ok /\ last.res.kind = "frame") => (n >= 1 /\ ErrorFrame(rd[n]))

C9_Witness ==
    /\ last.op = "move"
    /\ Wire(last.read) = <<FErase, FErase, FErrNum>>
    /\ last.res = Err("frame", "mu server error", [kind |-> "code", n |-> 2])
    /\ pipe # <<>>

\* C10: after a call has failed on an error frame nothing is left unread on
\* the session, so that the next command reads its own response.
C10_ErrorFrameLeavesSessionUsable ==
    IF last.res.ok THEN TRUE
    ELSE last.res.kind = "frame" => pipe \o srv = <<>>

\* The frame ends a response of `op`: a ping or a move ends on the first
\* frame that is not an :erase, a find on an error or a :found marker, and a
\* poll reads a single frame.
EndsCall(op, f) ==
    IF op = "poll" THEN TRUE
    ELSE IF EraseFrame(f) THEN FALSE
    ELSE IF op \in {"find", "find_preview"} THEN ErrorFrame(f) \/ FoundFrame(f)
    ELSE TRUE

\* C11: when the server has closed its stdout and a ping, find,
\* find_preview, move or poll has read everything it wrote without meeting
\* the frame that ends its response, the call returns a transport error; a
\* find or find_preview that succeeds has read its :found marker, so the
\* envelopes gathered before the end of the stream are never a success; and
\* no client call brings a closed session back.
C11_TransportFailureIsExplicit ==
    /\ [](/\ (/\ last.op \in {"ping", "find", "find_preview", "move", "poll"}
              /\ closed
              /\ pipe \o srv = <<>>
              /\ \A i \in 1..Len(last.read) : ~EndsCall(last.op, last.read[i].f))
             => (~last.res.ok /\ last.res.kind = "transport")
          /\ (last.op \in {"find", "find_preview"} /\ last.res.ok)
             => (/\ last.read # <<>>
                 /\ FoundFrame(last.read[Len(last.read)].f)))
    /\ [][closed => closed']_vars

\* The server wrote one header batch and exited: find fails.
C11_Witness ==
    /\ last.op = "find"
    /\ Wire(last.read) = <<FErase, FHeaders(BatchB)>>
    /\ closed
    /\ last.res = Err("transport", "mu server closed stdout", NoText)

\* `a` is `b` cut short before its end.
Truncated(a, b) == Len(a) < Len(b) /\ a = Take(b, Len(a))

\* The payload string P when the bytes S begin with the frame
\* 0xFE lowercase-hex(len P) 0xFF P.
FirstFrame(S) ==
    LET sep == Position(S, 2, xFF)
        field == SubSeq(S, 2, sep - 1)
        isHex == field # <<>> /\ \A i \in 1..Len(field) :
                     (field[i] >= 48 /\ field[i] <= 57) \/ (field[i] >= 97 /\ field[i] <= 102)
        data_end == sep + DigitsValue(field, 1, 16, 0)
        P == SubSeq(S, sep + 1, data_end)
    IN IF S = <<>> \/ S[1] # xFE \/ sep = 0 THEN None
       ELSE IF ~isHex THEN None
       ELSE IF Len(S) < data_end THEN None
       ELSE IF from_utf8(P) /\ Take(S, data_end) = Encode(P) THEN Some(P)
       ELSE None

\* The bytes of the stream from the start of the buffer that the latest
\* iteration parsed.
StreamFrom ==
    (IF frame.ret = "value" THEN frame.before ELSE buf) \o stdout

\* C12: for every payload string P, read_frame on the bytes
\* 0xFE hex(len P) 0xFF P gives what parse_sexp gives on P, a value with the
\* whole encoded length as the consumed count or the parse failure.
C12_FrameRoundTrip ==
    LET f == FirstFrame(frame.before)
    IN (f.some /\ frame.before = Encode(f.v)) =>
          IF parse_sexp(f.v).ok
            THEN frame.res = Ok(Some([value |-> parse_sexp(f.v).v,
                                      consumed |-> Len(Hex(Len(f.v))) + Len(f.v) + 2]))
            ELSE frame.res = parse_sexp(f.v)

\* A payload of 26 bytes, length field 1a, decoded in one piece.
C12_Witness ==
    /\ Len(frame.before) = 30
    /\ SubSeq(frame.before, 1, 4) = <<xFE, 49, 97, xFF>>
    /\ frame.ret = "value"
    /\ frame.res.v.v.consumed = 30
    /\ frame.res.v.v.value.t = "list"
    /\ buf = <<>>

\* C13: read_frame on an encoded frame cut short at any byte before the end
\* of its payload, inside the length field and at the empty buffer too,
\* says no frame yet and never reports a parse error.
C13_PartialFrameIsNotAnError ==
    LET f == FirstFrame(StreamFrom)
    IN (frame.ret # "none" /\ f.some /\ Truncated(frame.before, Encode(f.v))) =>
          frame.res = Ok(None)

\* A frame cut between the two bytes of a character: the reader reads on.
C13_Witness ==
    /\ frame.before = <<xFE, 50, xFF, 195>>
    /\ frame.res = Ok(None)
    /\ frame.ret = "read"
    /\ buf = <<xFE, 50, xFF, 195, 169>>

\* A hexadecimal number: one or more of the digits 0-9, a-f, A-F.
HexNumber(s) ==
    /\ s # <<>>
    /\ \A i \in 1..Len(s) :
          \/ (s[i] >= 48 /\ s[i] <= 57)
          \/ (s[i] >= 97 /\ s[i] <= 102)
          \/ (s[i] >= 65 /\ s[i] <= 70)

\* C14: with both markers in the buffer, read_frame reports a parse error
\* when the bytes between them are not valid UTF-8 or not a hexadecimal
\* number, and when the complete payload is not valid UTF-8; it says no
\* frame yet only when a marker or part of the payload is missing.
C14_ParseFailureOrIncomplete ==
    LET b == frame.before
        start == Position(b, 1, xFE)
        sep == IF start = 0 THEN 0 ELSE Position(b, start + 1, xFF)
        field == SubSeq(b, start + 1, sep - 1)
        wellFormed == from_utf8(field) /\ HexNumber(field)
        data_end == sep + DigitsValue(field, 1, 16, 0)
    IN frame.ret # "none" =>
         /\ (start # 0 /\ sep # 0 /\ ~wellFormed) =>
                (~frame.res.ok /\ frame.res.kind = "parse")
         /\ (start # 0 /\ sep # 0 /\ wellFormed /\ Len(b) >= data_end
               /\ ~from_utf8(SubSeq(b, sep + 1, data_end))) =>
                (~frame.res.ok /\ frame.res.kind = "parse")
         /\ frame.res = Ok(None) =>
                \/ start = 0
                \/ sep = 0
                \/ (wellFormed /\ Len(b) < data_end)

\* C15: when the buffer holds noise without 0xFE, then a complete frame,
\* then a tail, read_frame gives the frame's value and counts the noise and
\* the frame as consumed, and next_frame leaves exactly the tail in the
\* buffer.
C15_NoiseIsDrainedWithTheFrame ==
    LET b == frame.before
        start == Position(b, 1, xFE)
        N == Take(b, start - 1)
        f == FirstFrame(Drop(b, Len(N)))
    IN (start # 0 /\ f.some /\ parse_sexp(f.v).ok) =>
          LET F == Encode(f.v)
              T == Drop(b, Len(N) + Len(F))
          IN /\ b = N \o F \o T
             /\ frame.res = Ok(Some([value |-> parse_sexp(f.v).v,
                                     consumed |-> Len(N) + Len(F)]))
             /\ frame.ret = "value"
             /\ buf = T

\* Two bytes of noise, the frame of (t) and the start of the next frame.
C15_Witness ==
    /\ frame.before = <<xFF, 10, xFE, 51, xFF, 40, 116, 41, xFE, 49, xFF, 116>>
    /\ frame.ret = "value"
    /\ frame.res.v.v.consumed = 8
    /\ buf = <<xFE, 49, xFF, 116>>

\* The unsigned integer under :docid of the frame's :update plist, if any.
UpdateDocid(f) ==
    IF /\ f["update"].t = "plist"
       /\ "docid" \in DOMAIN f["update"].kv
       /\ f["update"].kv["docid"].t = "num"
       /\ f["update"].kv["docid"].n >= 0
    THEN Some(f["update"].kv["docid"].n)
    ELSE None

\* C16: move_msg(docid, ..) skips the :erase frames and reads one frame
\* more.  It returns the unsigned integer :docid of that frame's :update
\* plist, or the docid it was given when the frame has no :update or the
\* :update has no such :docid; it fails only on an error frame or when the
\* server has gone.
C16_MoveFallsBackToGivenDocid ==
    last.op = "move" =>
        LET rd == Wire(last.read)
            n == Len(rd)
        IN /\ \A i \in 1..(n - 1) : EraseFrame(rd[i])
           /\ last.res.ok =>
                /\ n >= 1
                /\ ~EraseFrame(rd[n]) /\ ~ErrorFrame(rd[n])
                /\ last.res.v.docid = IF UpdateDocid(rd[n]).some
                                        THEN UpdateDocid(rd[n]).v ELSE last.arg
           /\ ~last.res.ok =>
                \/ last.res.kind = "frame" /\ n >= 1 /\ ErrorFrame(rd[n])
                \/ last.res.kind = "transport" /\ closed
                \/ last.res.kind = "blocked" /\ ~closed

\* The response (:update (:maildir "/Archive")) after an :erase: the move
\* of docid 8 returns 8, and the frame after it is left unread.
C16_Witness ==
    /\ last.op = "move"
    /\ last.arg = 8
    /\ Wire(last.read) = <<FErase, FUpdateNoDocid>>
    /\ last.res = Ok([docid |-> 8])

\* The frame carries a :found key, whatever is stored under it.
HasFoundKey(f) == f["found"].t # "abs"

\* C17: a find or find_preview ends on the first frame, neither :erase nor
\* error, that carries a :found key of any value: it reads no frame after
\* it and returns successfully on it.
C17_FoundKeyEndsFind ==
    (last.op \in {"find", "find_preview"}) =>
        LET rd == Wire(last.read)
            n == Len(rd)
        IN \A i \in 1..n :
              (HasFoundKey(rd[i]) /\ ~EraseFrame(rd[i]) /\ ~ErrorFrame(rd[i])) =>
                  (i = n /\ last.res.ok)

\* C18: find_preview(q, n) sends the command text that find sends for q
\* with the default options and max_num = n, and on every response stream
\* it reads the frames find would read and returns what find would return,
\* the same envelopes or the same failure, together with the number under
\* :found of the terminator frame.
C18_PreviewHasFindsContract ==
    last.op = "find_preview" =>
        /\ last.arg.cmd = find_command(last.arg.query,
                                       [DefaultFindOpts EXCEPT !.max_num = last.arg.max_num])
        /\ (last.res.ok \/ last.res.ctx # "write to mu stdin") =>
              LET f == find_read(Wire(last.pre), closed)
                  rd == Wire(last.read)
              IN /\ f.n = Len(rd)
                 /\ f.res.ok = last.res.ok
                 /\ last.res.ok =>
                      /\ last.res.v.envelopes = f.res.v.envelopes
                      /\ last.res.v.count = rd[Len(rd)]["found"].n
                 /\ ~last.res.ok => last.res = f.res

\* The preview of a query with a quote, answered by two batches and the
\* marker (:found 3).
C18_Witness ==
    /\ last.op = "find_preview"
    /\ last.arg.query = <<"a", "\"", "\\">>
    /\ last.arg.cmd = "(find :query \"a\\\"\\\\\" :sortfield :date :maxnum 5 :threads t :descending t)"
    /\ Wire(last.read) = <<FHeaders(BatchA), FHeaders(BatchB), FFound(3)>>
    /\ last.res.ok
    /\ Len(last.res.v.envelopes) = 3
    /\ last.res.v.count = 3

\* What C19 says of a ping that has read its frame, with `isPong` telling
\* which frames make it succeed: the command is (ping), every frame read
\* but the last is an :erase, the last is not, the call succeeds exactly on
\* the frames of `isPong`, and the frames after it stay unread.
PingContract(isPong(_)) ==
    (last.op = "ping" /\ (last.res.ok \/ last.res.kind \in {"frame", "proto"})) =>
        LET rd == Wire(last.read)
            n == Len(rd)
        IN /\ last.arg.cmd = "(ping)"
           /\ n >= 1
           /\ \A i \in 1..(n - 1) : EraseFrame(rd[i])
           /\ ~EraseFrame(rd[n])
           /\ last.res.ok <=> isPong(rd[n])
           /\ last.read = Take(last.pre, n)
           /\ pipe \o srv = Drop(last.pre, n)

StringPong(f) == f["pong"].t = "str"
StringPongNoError(f) == f["pong"].t = "str" /\ ~ErrorFrame(f)

\* C19: ping sends (ping), skips the :erase frames, reads one frame more
\* and succeeds if and only if that frame has a string under :pong; the
\* frames after it are left unread.
C19_PingSucceedsIffStringPong == PingContract(StringPong)

\* C19, amended: ping sends (ping), skips the :erase frames, reads one
\* frame more and succeeds if and only if that frame carries no :error key
\* and has a string under :pong; the frames after it are left unread.
C19_PingSucceedsIffPongAndNoError == PingContract(StringPongNoError)

\* An :erase, the pong, and a frame that stays unread.
C19_Witness ==
    /\ last.op = "ping"
    /\ Wire(last.read) = <<FErase, FPong>>
    /\ last.res.ok
    /\ Wire(pipe) = <<FOther>>

\* The first frame of `rd` that is not an :erase is a pong; FALSE when
\* there is none.
FirstAnswerIsPong(rd) ==
    \E i \in 1..Len(rd) :
        /\ \A j \in 1..(i - 1) : EraseFrame(rd[j])
        /\ ~EraseFrame(rd[i])
        /\ ~ErrorFrame(rd[i])
        /\ rd[i]["pong"].t = "str"

\* The first frame of `rd` that is not an :erase is an error frame or has
\* no string under :pong.
FirstAnswerIsNoPong(rd) ==
    \E i \in 1..Len(rd) :
        /\ \A j \in 1..(i - 1) : EraseFrame(rd[j])
        /\ ~EraseFrame(rd[i])
        /\ (ErrorFrame(rd[i]) \/ rd[i]["pong"].t # "str")

\* C20: MuClient::start hands out a client only after its ping has read a
\* pong as the first frame that is not an :erase; when that frame is an
\* error frame or another plist, or the stream ends before it, start
\* returns an error and no client; and every client call is made on a
\* client that start handed out.
C20_NoClientWithoutHandshake ==
    [][/\ pc = "start" =>
            /\ last'.op = "ping" /\ last'.pre = <<>>
            /\ pc' = "ready" <=> FirstAnswerIsPong(Wire(last'.read))
            /\ pc' = "ready" <=> last'.res.ok
            /\ (\/ FirstAnswerIsNoPong(Wire(last'.read))
                \/ (closed' /\ \A i \in 1..Len(last'.read) :
                                    EraseFrame(last'.read[i].f)))
                 => (pc' = "failed" /\ ~last'.res.ok)
       /\ pc # "start" => (pc = "ready" /\ pc' = "ready")]_vars

\* The welcome was an :erase and then a plist that is no pong: start
\* failed and no call can be made.
C20_Witness ==
    /\ pc = "failed"
    /\ last.op = "ping"
    /\ Wire(last.read) = <<FErase, FOther>>
    /\ last.res = Err("proto", "expected pong", NoText)

-----------------------------------------------------------------------------
\* C21: no server process outlives its client: every running process
\* belongs to a live MuClient, and a client that is destroyed leaves its
\* process exited or with a kill issued.
C21_NoOrphanServer ==
    /\ [](\A c \in 1..Len(child) : child[c] = "running" => c \in clients)
    /\ [][\A c \in clients \ clients' : child'[c] # "running"]_vars

\* A client was dropped without a quit while its server was running: the
\* process carries the kill.
C21_Witness ==
    \E c \in 1..Len(child) : child[c] = "killed" /\ c \notin clients

-----------------------------------------------------------------------------
\* C22: when triage_move or triage_toggle_flag has returned, with success
\* or with an error part-way through a selection, no envelope of the visible
\* list carries a docid that a successful move has invalidated: every listed
\* docid is one the server still holds.
C22_NoStaleDocidAfterTriage ==
    \A i \in 1..Len(envelopes) :
        \E j \in 1..Len(store) : store[j].docid = envelopes[i].docid

-----------------------------------------------------------------------------
(* Conversations.                                                          *)

Roots(envs) == [i \in 1..Len(envs) |-> envs[i].thread_meta.root]
Sizes(convs) == [k \in 1..Len(convs) |-> Len(convs[k].messages)]
RepliesBelowRoot(envs) ==
    \A i \in 1..Len(envs) : ~envs[i].thread_meta.root => envs[i].thread_meta.level > 0

\* C23, as stated: five envelopes with root flags [true, false, true,
\* false, false] are grouped into two conversations of sizes 1 and 4.
C23_FiveEnvelopesGiveOneAndFour ==
    (pc = "grouped" /\ Roots(input) = <<TRUE, FALSE, TRUE, FALSE, FALSE>>)
        => Sizes(output) = <<1, 4>>

\* C23, amended: five envelopes with root flags [true, false, true, false,
\* false], the replies at a level above 0, are grouped into two
\* conversations of sizes 2 and 3.
C23_FiveEnvelopesGiveTwoAndThree ==
    (/\ pc = "grouped"
     /\ Roots(input) = <<TRUE, FALSE, TRUE, FALSE, FALSE>>
     /\ RepliesBelowRoot(input))
        => Sizes(output) = <<2, 3>>

C23_Witness ==
    /\ pc = "grouped"
    /\ Roots(input) = <<TRUE, FALSE, TRUE, FALSE, FALSE>>
    /\ RepliesBelowRoot(input)
    /\ input[3].thread_meta.level = 1
    /\ Len(output) = 2

\* The positions of the input at which a conversation of the output begins.
Starts(convs) == {convs[k].messages[1].docid : k \in 1..Len(convs)}
Flat(convs) ==
    LET RECURSIVE Cat(_)
        Cat(k) == IF k = 0 THEN <<>> ELSE Cat(k - 1) \o convs[k].messages
    IN Cat(Len(convs))

C26_RepresentativeIsLastUnread ==
    pc = "shown" =>
       LET msgs == output.conversation.messages
           unread == {i \in 1..Len(msgs) : "Seen" \notin {msgs[i].flags[j] :
                                                          j \in 1..Len(msgs[i].flags)}}
       IN /\ unread # {} =>
               output.representative =
                  msgs[CHOOSE i \in unread : \A j \in unread : j <= i]
          /\ unread = {} => output.representative = msgs[Len(msgs)]

\* A conversation of three with an unread message before a read last one.
C26_Witness ==
    /\ pc = "shown"
    /\ Len(output.conversation.messages) = 3
    /\ is_unread(output.conversation.messages[1])
    /\ is_unread(output.conversation.messages[2])
    /\ ~is_unread(output.conversation.messages[3])
    /\ output.representative = output.conversation.messages[2]

-----------------------------------------------------------------------------
(* Plists as alternating key/value pairs.                                  *)

HasKey(pairs, k) == \E i \in 1..Len(pairs) : pairs[i].k = k
DistinctKeys(pairs) ==
    \A i, j \in 1..Len(pairs) : pairs[i].k = pairs[j].k => i = j
\* The value of the first pair with key k.
Under(pairs, k) ==
    IF HasKey(pairs, k)
    THEN Some(pairs[CHOOSE i \in 1..Len(pairs) :
                      /\ pairs[i].k = k
                      /\ \A j \in 1..(i - 1) : pairs[j].k # k].v)
    ELSE None
StringUnder(pairs, k) ==
    IF Under(pairs, k).some /\ Under(pairs, k).v.t = "str"
    THEN Some(Under(pairs, k).v.s) ELSE None
NumberUnder(pairs, k) ==
    IF Under(pairs, k).some /\ Under(pairs, k).v.t = "num" /\ Under(pairs, k).v.n >= 0
    THEN Some(Under(pairs, k).v.n) ELSE None

\* C27: a plist is an error exactly when it has an :error key, and the text
\* is the string under :message, else the string under :error, else
\* "error code N" for a numeric :error, else the fallback.
C27_ErrorClassification ==
    (pc = "classified" /\ DistinctKeys(input)) =>
       IF ~HasKey(input, "error") THEN output = None
       ELSE output =
              IF StringUnder(input, "message").some THEN StringUnder(input, "message")
              ELSE IF StringUnder(input, "error").some THEN StringUnder(input, "error")
              ELSE IF NumberUnder(input, "error").some
                THEN Some("error code " \o Decimal(NumberUnder(input, "error").v))
              ELSE Some("unknown error")

PairOrders(n) == {f \in [1..n -> 1..n] : \A i, j \in 1..n : f[i] = f[j] => i = j}

\* C28: for a plist with distinct keys every accessor gives the same result
\* for every key under any permutation of the pairs.
C28_AccessorsIgnoreOrder ==
    (pc = "got" /\ DistinctKeys(input)) =>
       \A f \in PairOrders(Len(input)) :
          AccessorsOf(PlistOf([i \in 1..Len(input) |-> input[f[i]]]), output.key)
             = output

\* C29: the result for key k is the value that follows the first :k in a
\* key position; a keyword in a value position is not taken for a key.
C29_AccessorsReadPairs ==
    pc = "got" =>
       /\ output.get = Under(input, output.key)
       /\ output.u32 = NumberUnder(input, output.key)

\* C30: parse_find_response fails exactly when some header plist of the
\* :headers list has no unsigned-integer :docid; fields of the wrong shape
\* never make it fail, and a frame without a :headers list decodes to the
\* empty list.
C30_DecodeFailsOnlyForMissingDocid ==
    pc = "decoded" =>
       /\ ~output.ok <=>
             \E i \in 1..Len(input.headers) :
                ~NumberUnder(input.headers[i], "docid").some
       /\ input.headers = <<>> => output = Ok(<<>>)

\* high * 65536 + low as a number of seven limbs, and the tuples C31 is
\* about.
ExactSeconds(high, low) == AddLimbs(<<0>> \o high \o <<0>>, low \o <<0, 0>>, 1, 0)
NonNegativeInteger(v) == v.t = "big" \/ (v.t = "num" /\ v.n >= 0)
LimbsOf(v) == IF v.t = "big" THEN v.limbs ELSE U64Of(v.n)
TimeTuple ==
    /\ input.t = "list"
    /\ Len(input.items) >= 2
    /\ NonNegativeInteger(input.items[1])
    /\ NonNegativeInteger(input.items[2])
DecodesExactly ==
    /\ output.some
    /\ ~output.v.neg
    /\ ExactSeconds(LimbsOf(input.items[1]), LimbsOf(input.items[2]))
         = output.v.mag \o <<0, 0, 0>>

\* C31 (as stated): every tuple that starts with two non-negative integers
\* (high low ...) decodes to exactly high * 65536 + low seconds.
C31_TimeDecodesExactly ==
    (pc = "decoded" /\ TimeTuple) => DecodesExactly

\* C31 (amended): a tuple that starts with two non-negative integers whose
\* high * 65536 + low is at most 8210266876799, the last second a
\* DateTime<Utc> holds, decodes to exactly that many seconds, whatever
\* follows the two; (27028 6999 0) is such a tuple.
C31_TimeInRangeDecodesExactly ==
    (/\ pc = "decoded"
     /\ TimeTuple
     /\ LimbsLeq(ExactSeconds(LimbsOf(input.items[1]), LimbsOf(input.items[2])),
                 MaxTimestamp \o <<0, 0, 0>>, 7))
    => DecodesExactly

\* C31 witness: (27028 6999 0) has been decoded to 27028 * 65536 + 6999.
C31_Witness ==
    /\ pc = "decoded"
    /\ input = Lst(<<Num(27028), Num(6999), Num(0)>>)
    /\ output = Some([neg |-> FALSE, mag |-> <<6999, 27028, 0, 0>>])

\* How a reader takes a string literal: from the character after the
\* opening quote, a backslash stands for the character after it and the
\* first quote without one closes the literal.  The result is the content
\* read and what follows the closing quote; closed is FALSE when the text
\* ends inside the literal.
RECURSIVE ReadLiteral(_, _, _)
ReadLiteral(chars, i, content) ==
    IF i > Len(chars) THEN [closed |-> FALSE, content |-> content, rest |-> <<>>]
    ELSE IF chars[i] = "\"" THEN
        [closed |-> TRUE, content |-> content, rest |-> SubSeq(chars, i + 1, Len(chars))]
    ELSE IF chars[i] = "\\" /\ i < Len(chars) THEN
        ReadLiteral(chars, i + 2, Append(content, chars[i + 1]))
    ELSE ReadLiteral(chars, i + 1, Append(content, chars[i]))

\* The escape of one character, and of a string character by character.
EscapeChar(c) ==
    CASE c = "\\" -> <<"\\", "\\">>
      [] c = "\"" -> <<"\\", "\"">>
      [] OTHER -> <<c>>
RECURSIVE EscapeEach(_)
EscapeEach(chars) ==
    IF chars = <<>> THEN <<>> ELSE EscapeChar(Head(chars)) \o EscapeEach(Tail(chars))

\* C32: escape_string doubles every backslash, puts a backslash before
\* every quote and leaves the other characters alone; reading the escaped
\* string back gives the input; and the literal of the command that embeds
\* it closes at the command's own closing quote, not before.
C32_EscapeKeepsLiteralClosed ==
    pc = "escaped" =>
        LET body == SubSeq(output.literal, 2, Len(output.literal) - 1)
            read == ReadLiteral(Tail(output.literal) \o output.tail, 1, <<>>)
        IN /\ body = EscapeEach(input)
           /\ read.closed
           /\ read.content = input
           /\ read.rest = output.tail

\* C32 witness: a string with a quote and a backslash has been embedded in
\* a move command.
C32_Witness ==
    /\ pc = "escaped"
    /\ input = <<"a", "\"", "\\">>
    /\ output.head = CommandHead("maildir")

\* The status texts run makes from an error.
ShowsError(status) ==
    status \in {Some("Error: {}"), Some("IPC error: {}"), Some("Reindex error: {}")}

\* C33: a step of the event loop in which a find, move or index operation
\* fails ends with the failure as the status text and with the loop still
\* running.
C33_FailuresShownAsStatus ==
    [][(last' # last /\ ~last'.res.ok) => (ShowsError(status_message') /\ pc' # "done")]_vars

\* The two-key bindings that were loaded for the mode of the run.
TwoKeyBindings ==
    IF pc = "loaded"
    THEN {output.mapper.custom_bindings[i] : i \in
            {j \in 1..Len(output.mapper.custom_bindings) :
                /\ output.mapper.custom_bindings[j].trigger.kind = "Sequence"
                /\ input.mode \in output.mapper.custom_bindings[j].modes}}
    ELSE {}
ActionOf(b) ==
    IF b.action.kind = "Folder" THEN "NavigateFolder(" \o b.action.arg \o ")"
    ELSE b.action.arg

\* C34: for every loaded two-key binding (k1 k2 -> action) of the mode,
\* pressing k1 with nothing pending returns Noop and leaves the mapper
\* pending, and pressing k2 right after that returns the action and leaves
\* nothing pending, whatever the modifiers of k1.
C34_TwoKeyBindingsTrigger ==
    [][\A b \in TwoKeyBindings :
          /\ (/\ output'.count = output.count + 1
              /\ ~output.mapper.pending.some
              /\ output'.key = b.trigger.first)
             => (output'.action = "Noop" /\ output'.mapper.pending.some)
          /\ (/\ output'.count = output.count + 1
              /\ output.count > 0
              /\ output.key = b.trigger.first
              /\ ~output.was_pending
              /\ output.mapper.pending.some
              /\ output'.key = b.trigger.second)
             => (output'.action = ActionOf(b) /\ ~output'.mapper.pending.some)]_vars

RECURSIVE DecodeAll(_)
\* Decoding a whole stream at once: the value of every frame up to the end
\* of the stream or the first frame that does not parse.
DecodeAll(b) ==
    LET Rest(r) ==
          IF r.ok /\ r.v.some
            THEN <<r.v.v.value>> \o DecodeAll(Drop(b, r.v.v.consumed))
          ELSE <<>>
    IN Then(read_frame(b), Rest)

IsPrefix(s, t) == Len(s) <= Len(t) /\ s = Take(t, Len(s))

\* A buffer that ends inside the length field of a frame.
InLengthField(b) == b # <<>> /\ b[1] = xFE /\ Position(b, 1, xFF) = 0

\* C35: however the stream is split into read chunks, the values the calls
\* of next_frame have returned are the first values of decoding the whole
\* stream at once, and when the calls have come to the end of the stream or
\* to a frame that does not parse they are all of them: each frame once and
\* in order.
C35_ChunkingDoesNotMatter ==
    /\ IsPrefix(output, DecodeAll(input))
    /\ frame.ret \in {"eof", "error"} => output = DecodeAll(input)

\* C35 witness: the second value of a stream is returned by a call that
\* began with a buffer ending inside the length field of its frame and
\* read the rest in chunks of its own.
C35_Witness ==
    /\ frame.ret = "value"
    /\ Len(output) = 2
    /\ InLengthField(frame.entry)
    /\ Len(frame.entry) > 1
    /\ frame.taken # <<>>

RECURSIVE RestAfter(_, _)
\* What is left of a stream after its first k frames.
RestAfter(b, k) ==
    LET Rest(r) ==
          IF r.ok /\ r.v.some THEN RestAfter(Drop(b, r.v.v.consumed), k - 1) ELSE b
    IN IF k = 0 THEN b ELSE Then(read_frame(b), Rest)

\* C36: when the pending call is dropped, the session buffer holds what the
\* call began with followed by every byte the call has read, and the
\* buffer followed by the unread part of the stream is the stream after
\* the frames returned so far: no byte is lost or repeated, and the next
\* read goes on where the dropped call stopped.
C36_AbandonedPollLosesNothing ==
    frame.ret = "abandoned" =>
        /\ buf = frame.entry \o frame.taken
        /\ buf \o stdout = RestAfter(input, Len(output))

\* C36 witness: a call is dropped after one frame was returned, having
\* read part of the next frame, with more of the stream still to come.
C36_Witness ==
    /\ frame.ret = "abandoned"
    /\ Len(output) = 1
    /\ frame.taken # <<>>
    /\ stdout # <<>>

\* C39: a call that fails with a framing or parse error leaves in the
\* buffer what the call began with and every byte it has read, and the
\* call after it fails on the same buffer with the same error.
C39_FailedReadDrainsNothing ==
    [][/\ frame'.ret = "error" =>
            /\ buf' = frame'.entry \o frame'.taken
            /\ ~read_frame(buf').ok
       /\ frame.ret = "error" =>
            /\ frame'.ret = "error"
            /\ frame'.res = frame.res
            /\ buf' = buf]_vars

\* C39 witness: after one value was returned, a second call in a row has
\* failed on the same buffer, which is not empty.
C39_Witness ==
    /\ frame.ret = "error"
    /\ frame.again = 2
    /\ buf # <<>>
    /\ Len(output) = 1

\* C37: a reindex request is kept while an index is in flight and turned
\* into an (index) command only when none is: needs_reindex is not cleared
\* while indexing is set, no (index) becomes outstanding while indexing is
\* set, and the iteration that begins with a request and no index in
\* flight clears the request and sends (index), which sets indexing when
\* the send succeeds and leaves it false when the send fails.
C37_ReindexWaitsForIndexing ==
    [][/\ (needs_reindex /\ indexing) => needs_reindex'
       /\ (needs_reindex /\ ~needs_reindex') => (~indexing /\ pc = "top")
       /\ (idxOut' = "sent" /\ idxOut # "sent") => ~indexing
       /\ (pc = "top" /\ pc' = "select" /\ needs_reindex /\ ~indexing) =>
            /\ ~needs_reindex'
            /\ indexing' = ~closed
            /\ ~closed => idxOut' \in {"sent", "answered"}]_vars

\* C37 witness: an iteration has reached the select! with an index in
\* flight and a reindex request waiting.
C37_Witness ==
    /\ pc = "select"
    /\ indexing
    /\ needs_reindex
    /\ idxOut = "sent"

\* C38: when switch_account has returned an error, at whichever step, the
\* client of app.mu is alive, its server process runs, and that server was
\* started for the account recorded in active_account.
C38_FailedSwitchKeepsSession ==
    (pc = "run" /\ ~output.ok) =>
        /\ app_mu \in clients
        /\ child[app_mu] = "running"
        /\ output.serves = active_account

\* C40: the conversations returned for a list of envelopes, one after the
\* other, are the list itself, envelope for envelope, and none of them is
\* empty, so that the representative of each is one of its messages.
C40_GroupingPartitionsInput ==
    pc = "grouped" =>
        /\ Flat(output) = input
        /\ \A k \in 1..Len(output) :
              /\ output[k].messages # <<>>
              /\ \E i \in 1..Len(output[k].messages) :
                    representative(output[k]) = output[k].messages[i]

\* C40 witness: five envelopes were grouped into three conversations, one
\* of them of more than one message.
C40_Witness ==
    /\ pc = "grouped"
    /\ Len(input) = 5
    /\ Len(output) = 3
    /\ \E k \in 1..Len(output) : Len(output[k].messages) > 1

====
